---------------------------- MODULE Spec2Model ----------------------------
(***************************************************************************)
(* EvoLab simulation engine (class GameEngine) as a state machine.         *)
(*                                                                         *)
(* Numbers.  The engine computes in floating point; the model computes in  *)
(* fixed point, every quantity an integer number of the unit given here:   *)
(*   lengths (positions, velocities, sizes, sense radius, speed, wander,   *)
(*     zone radius and drift, world and cell size, camera) : 1/20 unit     *)
(*   energy (oEnergy, gRepro, foodValue)                    : 1/1000 unit  *)
(*   defense, metabolism, mutationRate, mutationChance,                    *)
(*     predatorSizeAdvantage, maxToxicity, camera zoom      : 1/100        *)
(*   baseMetabolism                                         : 1/10000      *)
(*   hue                                                    : 2^-16 degree *)
(*   a value of Math.random()                               : 1/100        *)
(* Typed arrays are functions on 0 .. capacity-1.  A Float32Array keeps 24 *)
(* significant bits of what is written to it; in the unit of the hue that  *)
(* is every integer below 256 degrees and every other one from there to    *)
(* 512 degrees.                                                            *)
(*                                                                         *)
(* Operators take the values they use several times as parameters, so     *)
(* that each step of a method is written once.                             *)
(***************************************************************************)
EXTENDS Integers, Sequences, FiniteSets, TLC

(***************************************************************************)
(* Bounds of the model.                                                    *)
(***************************************************************************)
MAX_POP == 4            \* capacity of the organism store
MAX_FOOD == 3           \* capacity of the food store
MaxFrames == 2          \* frame callbacks explored
MaxOps == 3             \* other operations explored

InitialPop == 2         \* config.initialPop (50 in the source, scaled to the store)
InitialFood == 2        \* config.initialFood (150 in the source, scaled to the store)
ZoneDensity == 1        \* config.zoneDensity (5 in the source; the UI allows 1 .. 20)

(***************************************************************************)
(* Arithmetic helpers.                                                     *)
(***************************************************************************)
Min(a, b) == IF a < b THEN a ELSE b
Max(a, b) == IF a > b THEN a ELSE b
Abs(a) == IF a < 0 THEN -a ELSE a

\* Quotient rounded toward zero (the fixed-point image of a real quotient).
Div(a, b) == IF a >= 0 THEN a \div b ELSE -((-a) \div b)

\* JavaScript's % : the remainder takes the sign of the dividend.
JsMod(a, b) == IF a >= 0 THEN a % b ELSE -((-a) % b)

\* Math.ceil(a / b) for a >= 0, b > 0.
CeilDiv(a, b) == (a + b - 1) \div b

\* One statement after another: Op applied to the value of v.  v is
\* evaluated to the value c before Op starts from c, which keeps the
\* evaluation of a long sequence of statements shallow.
Then(v, Op(_)) == CHOOSE r \in {Op(c) : c \in {v}} : TRUE

\* for (let k = lo; k <= hi; k++) Body(k): the first half of the range before
\* the second.
RECURSIVE ForRange(_, _, _, _)
ForRange(Body(_, _), acc, lo, hi) ==
    IF lo > hi THEN acc
    ELSE IF lo = hi THEN Body(acc, lo)
    ELSE Then(ForRange(Body, acc, lo, (lo + hi) \div 2),
              LAMBDA c : ForRange(Body, c, (lo + hi) \div 2 + 1, hi))

\* for (let k = 0; k < n; k++) Body: n applications of Body in a row.
Repeat(Body(_), cx, n) == ForRange(LAMBDA c, k : Body(c), cx, 1, n)

\* The largest base + d * step, d in 0 .. 15, whose square is at most n
\* (and fits 32 bits).
SqrtDigit(n, base, step) ==
    base + step * Cardinality({d \in 1 .. 15 :
                                 /\ base + d * step <= 46340
                                 /\ (base + d * step) * (base + d * step) <= n})

\* Math.sqrt, rounded down: one hexadecimal digit of the root after another.
Sqrt(n) == SqrtDigit(n, SqrtDigit(n, SqrtDigit(n, SqrtDigit(n, 0, 4096), 256), 16), 1)

SumSq(a, b) == a * a + b * b

\* v >= 0 rounded to the nearest multiple of step, a tie to the multiple
\* whose quotient is even.
RoundHalfEven(v, step) ==
    step * (v \div step)
    + (IF \/ 2 * (v % step) > step
          \/ 2 * (v % step) = step /\ (v \div step) % 2 = 1
       THEN step ELSE 0)

\* A number written into a Float32Array keeps 24 significant bits, rounded
\* to nearest, ties to even: integers below 2^24 are kept, those from 2^24
\* to 2^25 become even.
fround(v) ==
    IF Abs(v) < 16777216 THEN v
    ELSE IF v > 0 THEN RoundHalfEven(v, 2) ELSE -RoundHalfEven(-v, 2)

(***************************************************************************)
(* Program constants and defaults.                                         *)
(***************************************************************************)
cellSize == 6400                    \* 320
MAX_GRID_DIM == 500                 \* cells per axis the cell-head arrays have room for
HIST_BINS == 20         \* bins of each trait histogram
DefaultWorldSize == 60000           \* 3000
ReferenceWorldSize == 60000         \* the 3000 of worldSize / 3000
HueTurn == 23592960                 \* 360 degrees

DefaultConfig ==
    [ initialPop            |-> InitialPop,
      initialFood           |-> InitialFood,
      mutationRate          |-> 50,        \* 0.5
      mutationChance        |-> 90,        \* 0.9
      baseMetabolism        |-> 20,        \* 0.002
      startEnergy           |-> 150000,    \* 150
      predatorSizeAdvantage |-> 120,       \* 1.2
      foodValue             |-> 25000,     \* 25
      maxToxicity           |-> 90,        \* 0.9
      zoneCount             |-> 5,
      zoneDensity           |-> ZoneDensity,
      zoneDrift             |-> 6,         \* 0.3
      zoneSize              |-> 7000 ]     \* 350

OIdx == 0 .. MAX_POP - 1
FIdx == 0 .. MAX_FOOD - 1

(***************************************************************************)
(* Math.random().  The generator is a tape of values that the engine reads *)
(* in the order in which the code calls Math.random(); cx.n is the index   *)
(* of the next value.                                                      *)
(***************************************************************************)
Tapes ==
    { <<0>>, <<50>>, <<99>>, <<50, 0, 99, 0>> }

Rnd(cx, k) == cx.tape[((cx.n + k) % Len(cx.tape)) + 1]
Drawn(cx, k) == [cx EXCEPT !.n = @ + k]

\* A calling context: the engine, the generator, the value returned by the
\* last call, and the events of the operation so far.
Ctx(e, r) == [e |-> e, tape |-> r.tape, n |-> r.n, ret |-> -1, log |-> <<>>]
Advanced(cx) == [tape |-> cx.tape, n |-> cx.n % Len(cx.tape)]
Logged(cx, ev) == [cx EXCEPT !.log = Append(@, ev)]

\* Math.random() * worldSize, twice.
randomPoint(cx, k) ==
    [x |-> (Rnd(cx, k) * cx.e.worldSize) \div 100,
     y |-> (Rnd(cx, k + 1) * cx.e.worldSize) \div 100]

(***************************************************************************)
(* Toroidal geometry.                                                      *)
(***************************************************************************)
wrappedDelta(d, worldSize) ==
    IF 2 * d > worldSize THEN d - worldSize
    ELSE IF 2 * d < -worldSize THEN d + worldSize ELSE d

getWrappedVector(e, fromX, fromY, toX, toY) ==
    [x |-> wrappedDelta(toX - fromX, e.worldSize),
     y |-> wrappedDelta(toY - fromY, e.worldSize)]

wrappedAbs(d, worldSize) == IF 2 * d > worldSize THEN worldSize - d ELSE d

getWrappedDistSq(e, x1, y1, x2, y2) ==
    SumSq(wrappedAbs(Abs(x1 - x2), e.worldSize), wrappedAbs(Abs(y1 - y2), e.worldSize))

getWrappedDist(e, x1, y1, x2, y2) == Sqrt(getWrappedDistSq(e, x1, y1, x2, y2))

\* One conditional wrap each way, as the code writes it:
\*   if (x < 0) x += worldSize; if (x >= worldSize) x -= worldSize;
WrapUp(x, worldSize) == IF x < 0 THEN x + worldSize ELSE x
WrapDown(x, worldSize) == IF x >= worldSize THEN x - worldSize ELSE x
\* (fault: the wrap left out)
WrapNever(x, worldSize) == x
WrapOnce(x, worldSize) == WrapDown(WrapUp(x, worldSize), worldSize)

\* Math.cos and Math.sin of r/100 of a turn, in thousandths, interpolated
\* linearly between the half turns.
CosTurn(r) == IF r <= 50 THEN 1000 - 40 * r ELSE 40 * r - 3000
SinTurn(r) == CosTurn((r + 75) % 100)

(***************************************************************************)
(* Camera.                                                                 *)
(***************************************************************************)
ViewW(e) == (e.canvas.width * 2000) \div e.camera.zoom
ViewH(e) == (e.canvas.height * 2000) \div e.camera.zoom

clampAxis(view, pos, worldSize) ==
    IF view >= worldSize THEN -Div(view - worldSize, 2)
    ELSE Max(0, Min(pos, worldSize - view))

clampCamera(e) ==
    [e EXCEPT !.camera.x = clampAxis(ViewW(e), @, e.worldSize),
              !.camera.y = clampAxis(ViewH(e), @, e.worldSize)]

(***************************************************************************)
(* Entity stores.                                                          *)
(***************************************************************************)
\* A point of the disc of a zone: radius r, angle turn/100 of a turn.
zonePoint(zone, r, turn, worldSize) ==
    [x |-> WrapOnce(zone.pos.x + Div(r * CosTurn(turn), 1000), worldSize),
     y |-> WrapOnce(zone.pos.y + Div(r * SinTurn(turn), 1000), worldSize)]

pickZone(cx, k) == cx.e.zones[((Rnd(cx, k) * Len(cx.e.zones)) \div 100) + 1]

getBiasedSpawnPos(cx) ==
    IF cx.e.activeZones /\ Len(cx.e.zones) > 0
    THEN IF Rnd(cx, 0) < 80
         THEN [Drawn(cx, 4) EXCEPT
                 !.ret = zonePoint(pickZone(cx, 1),
                                   (pickZone(cx, 1).radius * Sqrt(Rnd(cx, 2) * 100)) \div 100,
                                   Rnd(cx, 3), cx.e.worldSize)]
         ELSE [Drawn(cx, 3) EXCEPT !.ret = randomPoint(cx, 1)]
    ELSE [Drawn(cx, 2) EXCEPT !.ret = randomPoint(cx, 0)]

\* The genome of a founder; g.n counts the calls of Math.random() that
\* spawnOrganism has made, the two of the velocity included.
randomGenome(cx) ==
    [ speed   |-> (Rnd(cx, 2) * 40) \div 100 + 30,
      size    |-> (Rnd(cx, 3) * 160) \div 100 + 100,
      sense   |-> (Rnd(cx, 4) * 1600) \div 100 + 800,
      repro   |-> Rnd(cx, 5) * 19000 + 100000,
      wander  |-> (Rnd(cx, 6) * 10) \div 100 + 2,
      defense |-> (Rnd(cx, 7) * 10) \div 100,
      meta    |-> 100,
      hue     |-> fround(Rnd(cx, 8) * (HueTurn \div 100)
                         + (Rnd(cx, 8) * (HueTurn % 100)) \div 100),
      n       |-> 9 ]

inheritedGenome(e, parentIdx) ==
    [ speed   |-> e.gSpeed[parentIdx],
      size    |-> e.gSize[parentIdx],
      sense   |-> e.gSense[parentIdx],
      repro   |-> e.gRepro[parentIdx],
      wander  |-> e.gWander[parentIdx],
      defense |-> e.gDefense[parentIdx],
      meta    |-> e.gMeta[parentIdx],
      hue     |-> e.gHue[parentIdx],
      n       |-> 2 ]

\* if (Math.random() < chance) trait += (Math.random() - 0.5) * amplitude,
\* the amplitude being 100 * num / den model units.
mutateTrait(cx, g, trait, num, den) ==
    IF Rnd(cx, g.n) < cx.e.config.mutationChance
    THEN [g EXCEPT ![trait] = fround(@ + Div((Rnd(cx, g.n + 1) - 50) * num, den)),
                   !.n = @ + 2]
    ELSE [g EXCEPT !.n = @ + 1]

\* The mutate() calls of spawnOrganism in their order: the trait and its
\* amplitude (num / den).
Mutations(rate) ==
    << <<"speed", rate * 40, 10000>>, <<"size", rate * 120, 10000>>,
       <<"sense", rate * 600, 10000>>, <<"repro", rate * 40, 1>>,
       <<"wander", 4, 100>>, <<"defense", 30, 100>>,
       <<"meta", rate * 50, 10000>>, <<"hue", 196608, 10>> >>

mutateWith(cx, g, m) ==
    ForRange(LAMBDA h, k : mutateTrait(cx, h, m[k][1], m[k][2], m[k][3]), g, 1, Len(m))

mutateGenome(cx, g) == mutateWith(cx, g, Mutations(cx.e.config.mutationRate))

clampTrait(lo, hi, v) == Max(lo, Min(hi, v))

wrapHue(h) == fround(JsMod(h + HueTurn, HueTurn))

clampGenome(g) ==
    [g EXCEPT
      !.speed   = clampTrait(10, 160, @),
      !.size    = clampTrait(80, 600, @),
      !.sense   = clampTrait(400, 6000, @),
      !.repro   = clampTrait(100000, 2500000, @),
      !.wander  = clampTrait(1, 40, @),
      !.defense = clampTrait(0, 100, @),
      !.meta    = clampTrait(50, 300, @),
      !.hue     = wrapHue(@)]

\* The slot idx taken from the free list and filled.
placeOrganism(cx, idx, x, y, g) ==
    [cx EXCEPT
      !.n = @ + g.n,
      !.ret = idx,
      !.e = [@ EXCEPT
              !.oFreePtr = @ - 1,
              !.oActive[idx] = 1,
              !.activeCount = @ + 1,
              !.oX[idx] = x, !.oY[idx] = y,
              !.oVX[idx] = Div((Rnd(cx, 0) - 50) * 20, 100),
              !.oVY[idx] = Div((Rnd(cx, 1) - 50) * 20, 100),
              !.gSpeed[idx] = g.speed, !.gSize[idx] = g.size,
              !.gSense[idx] = g.sense, !.gRepro[idx] = g.repro,
              !.gWander[idx] = g.wander, !.gDefense[idx] = g.defense,
              !.gMeta[idx] = g.meta, !.gHue[idx] = g.hue,
              !.oEnergy[idx] = g.repro \div 2]]

\* (fault: the free list is not tested before it is popped)
spawnOrganismUnguarded(cx, x, y, parentIdx) ==
    placeOrganism(cx, cx.e.oFree[Max(0, cx.e.oFreePtr)], x, y,
                  IF parentIdx = -1 THEN randomGenome(cx)
                  ELSE clampGenome(mutateGenome(cx, inheritedGenome(cx.e, parentIdx))))

spawnOrganism(cx, x, y, parentIdx) ==
    IF cx.e.oFreePtr < 0 THEN [cx EXCEPT !.ret = -1]
    ELSE placeOrganism(cx, cx.e.oFree[cx.e.oFreePtr], x, y,
                       IF parentIdx = -1 THEN randomGenome(cx)
                       ELSE clampGenome(mutateGenome(cx, inheritedGenome(cx.e, parentIdx))))

\* The nearest other living organism (lowest index among the nearest), -1 if none.
otherDistSq(e, idx, i) == getWrappedDistSq(e, e.oX[idx], e.oY[idx], e.oX[i], e.oY[i])

nearestIn(e, idx, cand) ==
    IF cand = {} THEN -1
    ELSE CHOOSE i \in cand :
           \A j \in cand : otherDistSq(e, idx, i) < otherDistSq(e, idx, j)
                           \/ (otherDistSq(e, idx, i) = otherDistSq(e, idx, j) /\ i <= j)

nearestOther(e, idx) == nearestIn(e, idx, {i \in OIdx : i # idx /\ e.oActive[i] = 1})

\* (fault: the index is not written to the free list)
releaseWithoutPush(e, idx) ==
    [e EXCEPT
      !.oActive[idx] = 0,
      !.oFreePtr = @ + 1,
      !.activeCount = @ - 1]

releaseOrganism(e, idx) ==
    [e EXCEPT
      !.oActive[idx] = 0,
      !.oFree[e.oFreePtr + 1] = idx,
      !.oFreePtr = @ + 1,
      !.activeCount = @ - 1]

killOrganism(e, idx) ==
    releaseOrganism(IF idx = e.followedIndex
                    THEN [e EXCEPT !.followedIndex = nearestOther(e, idx)]
                    ELSE e,
                    idx)

placeFood(cx, idx, x, y) ==
    [cx EXCEPT
      !.ret = idx,
      !.e = [@ EXCEPT
              !.fFreePtr = @ - 1,
              !.fActive[idx] = 1,
              !.fX[idx] = x, !.fY[idx] = y,
              !.foodCount = @ + 1]]

spawnFood(cx, x, y) ==
    IF cx.e.fFreePtr < 0 THEN [cx EXCEPT !.ret = -1]
    ELSE placeFood(cx, cx.e.fFree[cx.e.fFreePtr], x, y)

\* (fault: foodCount is not decremented)
killFoodKeepCount(e, idx) ==
    [e EXCEPT
      !.fActive[idx] = 0,
      !.fFree[e.fFreePtr + 1] = idx,
      !.fFreePtr = @ + 1]

killFood(e, idx) ==
    [e EXCEPT
      !.fActive[idx] = 0,
      !.fFree[e.fFreePtr + 1] = idx,
      !.fFreePtr = @ + 1,
      !.foodCount = @ - 1]

\* Calls as the engine makes them, each leaving an event in the log.
loggedSpawn(cx, r, ev, parentIdx, full) ==
    Logged(r, [ev |-> ev, parent |-> parentIdx, ret |-> r.ret,
               full |-> full, same |-> r.e = cx.e,
               from |-> IF parentIdx # -1 THEN inheritedGenome(cx.e, parentIdx) ELSE <<>>,
               traits |-> IF ev = "spawnOrganism" /\ r.ret # -1
                          THEN inheritedGenome(r.e, r.ret) ELSE <<>>,
               config |-> cx.e.config,
               taken |-> /\ r.ret # -1
                         /\ (IF ev = "spawnOrganism" THEN cx.e.oActive[r.ret]
                                                     ELSE cx.e.fActive[r.ret]) = 1])

callSpawnOrganism(cx, x, y, parentIdx) ==
    loggedSpawn(cx, spawnOrganism(cx, x, y, parentIdx), "spawnOrganism",
                parentIdx, cx.e.oFreePtr < 0)

callSpawnFood(cx, x, y) ==
    loggedSpawn(cx, spawnFood(cx, x, y), "spawnFood", -1, cx.e.fFreePtr < 0)

\* spawnFood(p.x, p.y) with the position p that p.ret holds.
spawnFoodAt(p) == callSpawnFood(p, p.ret.x, p.ret.y)

\* const p = this.getBiasedSpawnPos(); this.spawnFood(p.x, p.y);
spawnBiasedFood(cx) == spawnFoodAt(getBiasedSpawnPos(cx))

spawnRandomFood(cx, amount) == Repeat(spawnBiasedFood, cx, amount)

(***************************************************************************)
(* Construction and init().                                                *)
(***************************************************************************)
newZone(cx) ==
    [ pos    |-> randomPoint(cx, 0),
      radius |-> cx.e.config.zoneSize,
      vel    |-> [x |-> Div((Rnd(cx, 2) - 50) * cx.e.config.zoneDrift, 100),
                  y |-> Div((Rnd(cx, 3) - 50) * cx.e.config.zoneDrift, 100)] ]

pushZone(cx) == [Drawn(cx, 4) EXCEPT !.e.zones = Append(@, newZone(cx))]

targetZoneCount(e) == CeilDiv(e.config.zoneDensity * e.worldSize, ReferenceWorldSize)

pushZones(cx, count) == Repeat(pushZone, cx, count)

\* spawnOrganism(Math.random() * worldSize, Math.random() * worldSize)
spawnFounder(cx) ==
    callSpawnOrganism(Drawn(cx, 2), randomPoint(cx, 0).x, randomPoint(cx, 0).y, -1)

spawnInitialPop(cx, count) == Repeat(spawnFounder, cx, count)

resetStores(e) ==
    [e EXCEPT
      !.activeCount = 0,
      !.foodCount = 0,
      !.oFreePtr = MAX_POP - 1,
      !.oFree = [i \in OIdx |-> MAX_POP - 1 - i],
      !.oActive = [i \in OIdx |-> 0],
      !.fFreePtr = MAX_FOOD - 1,
      !.fFree = [i \in FIdx |-> MAX_FOOD - 1 - i],
      !.fActive = [i \in FIdx |-> 0]]

\* (fault: the zones of the world before are kept)
clearWorldKeepZones(e) == resetStores(e)
clearWorld(e) == [resetStores(e) EXCEPT !.zones = <<>>]

seedZones(cx) == pushZones(cx, targetZoneCount(cx.e))

populate(cx) ==
    spawnRandomFood(spawnInitialPop(cx, cx.e.config.initialPop), cx.e.config.initialFood)

centreCamera(e) ==
    clampCamera([e EXCEPT
                  !.camera.x = Div(e.worldSize, 2) - Div(ViewW(e), 2),
                  !.camera.y = Div(e.worldSize, 2) - Div(ViewH(e), 2)])

withEngine(cx, e) == [cx EXCEPT !.e = e]

initCamera(cx) == withEngine(cx, centreCamera(cx.e))

init(cx) == initCamera(populate(seedZones(withEngine(cx, clearWorld(cx.e)))))

\* The fields as the constructor leaves them just before it calls init();
\* the canvas has the size of a canvas element that was given none.
\* pending is no field of the engine: it counts the frame callbacks of this
\* engine that the host has been asked for and has not run yet.
Constructed ==
    [ worldSize |-> DefaultWorldSize, simSpeed |-> 1,
      debugMode |-> FALSE, predationActive |-> TRUE, activeZones |-> TRUE,
      paused |-> FALSE, frameCount |-> 0, animationId |-> 0, pending |-> 0,
      camera |-> [x |-> 0, y |-> 0, zoom |-> 50],
      canvas |-> [width |-> 300, height |-> 150],
      keys |-> {}, followedIndex |-> -1,
      config |-> DefaultConfig, zones |-> <<>>,
      oX |-> [i \in OIdx |-> 0], oY |-> [i \in OIdx |-> 0],
      oVX |-> [i \in OIdx |-> 0], oVY |-> [i \in OIdx |-> 0],
      oEnergy |-> [i \in OIdx |-> 0],
      gSpeed |-> [i \in OIdx |-> 0], gSize |-> [i \in OIdx |-> 0],
      gSense |-> [i \in OIdx |-> 0], gRepro |-> [i \in OIdx |-> 0],
      gWander |-> [i \in OIdx |-> 0], gDefense |-> [i \in OIdx |-> 0],
      gMeta |-> [i \in OIdx |-> 0], gHue |-> [i \in OIdx |-> 0],
      oActive |-> [i \in OIdx |-> 0],
      oFree |-> [i \in OIdx |-> MAX_POP - 1 - i],
      oFreePtr |-> MAX_POP - 1, activeCount |-> 0,
      fX |-> [i \in FIdx |-> 0], fY |-> [i \in FIdx |-> 0],
      fActive |-> [i \in FIdx |-> 0],
      fFree |-> [i \in FIdx |-> MAX_FOOD - 1 - i],
      fFreePtr |-> MAX_FOOD - 1, foodCount |-> 0,
      gridHead |-> <<>>, gridNext |-> [i \in OIdx |-> 0],
      foodGridHead |-> <<>>, foodGridNext |-> [i \in FIdx |-> 0],
      gridCols |-> 0, gridRows |-> 0,
      hSpeeds |-> [b \in 0 .. HIST_BINS - 1 |-> 0],
      hSizes |-> [b \in 0 .. HIST_BINS - 1 |-> 0],
      hSenses |-> [b \in 0 .. HIST_BINS - 1 |-> 0],
      hStorage |-> [b \in 0 .. HIST_BINS - 1 |-> 0],
      hMetas |-> [b \in 0 .. HIST_BINS - 1 |-> 0],
      hDefense |-> [b \in 0 .. HIST_BINS - 1 |-> 0] ]

(***************************************************************************)
(* Environment zones.                                                      *)
(***************************************************************************)
moveZone(z, worldSize) ==
    [z EXCEPT !.pos.x = WrapOnce(@ + z.vel.x, worldSize),
              !.pos.y = WrapOnce(@ + z.vel.y, worldSize)]

\* The velocity of a zone nudged by (Math.random() - 0.5) * 0.1 each way and
\* kept within the drift of the configuration.
nudgeZone(cx, z) ==
    [z EXCEPT
      !.vel.x = Max(-cx.e.config.zoneDrift,
                    Min(cx.e.config.zoneDrift, @ + Div((Rnd(cx, 1) - 50) * 2, 100))),
      !.vel.y = Max(-cx.e.config.zoneDrift,
                    Min(cx.e.config.zoneDrift, @ + Div((Rnd(cx, 2) - 50) * 2, 100)))]

\* One zone of the loop of updateEnvironment.
driftZone(cx, k) ==
    IF Rnd(cx, 0) < 5
    THEN [Drawn(cx, 3) EXCEPT !.e.zones[k] = nudgeZone(cx, moveZone(@, cx.e.worldSize))]
    ELSE [Drawn(cx, 1) EXCEPT !.e.zones[k] = moveZone(@, cx.e.worldSize)]

RECURSIVE driftZones(_, _)
driftZones(cx, k) ==
    IF k > Len(cx.e.zones) THEN cx ELSE driftZones(driftZone(cx, k), k + 1)

\* (fault: a zone above the target is dropped)
growOrPruneZones(cx) ==
    IF Len(cx.e.zones) < targetZoneCount(cx.e) THEN pushZone(cx)
    ELSE IF Len(cx.e.zones) > targetZoneCount(cx.e)
         THEN [cx EXCEPT !.e.zones = SubSeq(@, 1, Len(@) - 1)]
         ELSE cx

growZones(cx) ==
    IF Len(cx.e.zones) < targetZoneCount(cx.e) THEN pushZone(cx) ELSE cx

updateEnvironment(cx) ==
    IF cx.e.activeZones
    THEN driftZones(growZones(cx), 1)
    ELSE [cx EXCEPT !.e.zones = <<>>]

(***************************************************************************)
(* Spatial grid.                                                           *)
(***************************************************************************)
\* if (c < 0) c += n; if (c >= n) c %= n;
wrapCellUp(c, n) == IF c < 0 THEN c + n ELSE c
wrapCellDown(c, n) == IF c >= n THEN JsMod(c, n) ELSE c
wrapCell(c, n) == wrapCellDown(wrapCellUp(c, n), n)

\* The cell of a position, as updateGrid and the local-interaction phase
\* compute it.
cellIndex(e, cols, rows, x, y) ==
    wrapCell(y \div cellSize, rows) * cols + wrapCell(x \div cellSize, cols)

linkOrganism(e, i, c) ==
    [e EXCEPT !.gridNext[i] = e.gridHead[c], !.gridHead[c] = i]

\* (fault: the active flag is not tested)
RECURSIVE insertOrganismsAll(_, _)
insertOrganismsAll(e, i) ==
    IF i >= MAX_POP THEN e
    ELSE insertOrganismsAll(
           linkOrganism(e, i, cellIndex(e, e.gridCols, e.gridRows, e.oX[i], e.oY[i])),
           i + 1)

RECURSIVE insertOrganisms(_, _)
insertOrganisms(e, i) ==
    IF i >= MAX_POP THEN e
    ELSE IF e.oActive[i] = 1
         THEN insertOrganisms(
                linkOrganism(e, i, cellIndex(e, e.gridCols, e.gridRows, e.oX[i], e.oY[i])),
                i + 1)
         ELSE insertOrganisms(e, i + 1)

linkFood(e, i, c) ==
    [e EXCEPT !.foodGridNext[i] = e.foodGridHead[c], !.foodGridHead[c] = i]

RECURSIVE insertFood(_, _)
insertFood(e, i) ==
    IF i >= MAX_FOOD THEN e
    ELSE IF e.fActive[i] = 1
         THEN insertFood(
                linkFood(e, i, cellIndex(e, e.gridCols, e.gridRows, e.fX[i], e.fY[i])),
                i + 1)
         ELSE insertFood(e, i + 1)

clearGrid(e, cols, rows) ==
    [e EXCEPT
      !.gridCols = cols, !.gridRows = rows,
      !.gridHead = [c \in 0 .. cols * rows - 1 |-> -1],
      !.foodGridHead = [c \in 0 .. cols * rows - 1 |-> -1]]

\* Math.ceil(this.worldSize / this.cellSize)
gridDim(e) == CeilDiv(e.worldSize, cellSize)

updateGrid(e) ==
    insertFood(insertOrganisms(clearGrid(e, gridDim(e), gridDim(e)), 0), 0)

(***************************************************************************)
(* physicsStep: the behaviour step of one organism, phase by phase.        *)
(***************************************************************************)
speedOf(e, i) == Sqrt(SumSq(e.oVX[i], e.oVY[i]))

\* v * (top / mag) when mag exceeds top.
scaleDown(v, mag, top) == IF mag > top THEN Div(v * top, mag) ELSE v

\* dist < radius: damage = max(0, (1 - dist / radius) * maxToxicity - defense)
toxicity(e, i, z, dist) ==
    IF dist < z.radius
    THEN Max(0, Div((z.radius - dist) * e.config.maxToxicity * 10, z.radius)
                - 10 * e.gDefense[i])
    ELSE 0

RECURSIVE zoneDamage(_, _, _)
zoneDamage(e, i, k) ==
    IF k > Len(e.zones) THEN 0
    ELSE toxicity(e, i, e.zones[k],
                  getWrappedDist(e, e.oX[i], e.oY[i], e.zones[k].pos.x, e.zones[k].pos.y))
         + zoneDamage(e, i, k + 1)

\* (fault: the base cost left out)
upkeepNoBase(e, i, speedMag) ==
    Div(speedMag * speedMag * speedMag, 400)
    + Div(e.gSize[i] * e.gSize[i] * e.gSize[i], 80000)
    + Div(e.gSense[i], 200)
    + Div(e.gDefense[i] * 4, 5)

\* baseCost + speedCost + sizeCost + senseCost + defenseCost
upkeep(e, i, speedMag) ==
    Div(e.config.baseMetabolism * e.gMeta[i], 1000)
    + Div(speedMag * speedMag * speedMag, 400)
    + Div(e.gSize[i] * e.gSize[i] * e.gSize[i], 80000)
    + Div(e.gSense[i], 200)
    + Div(e.gDefense[i] * 4, 5)

\* Speed clamp and energy drain; the speed cost is that of the speed before
\* the clamp.
drainAt(e, i, speedMag) ==
    [e EXCEPT
      !.oVX[i] = scaleDown(@, speedMag, Div(e.gMeta[i] * 80, 100)),
      !.oVY[i] = scaleDown(@, speedMag, Div(e.gMeta[i] * 80, 100)),
      !.oEnergy[i] = @ - upkeep(e, i, speedMag)
                       - (IF e.activeZones THEN zoneDamage(e, i, 1) ELSE 0)]

drain(e, i) == drainAt(e, i, speedOf(e, i))

\* A distance compared with a best distance that starts at Infinity (-1 here).
Nearer(dSq, best) == best < 0 \/ dSq < best

considerFood(e, i, fIdx, b, dSq) ==
    IF e.fActive[fIdx] = 1 /\ dSq < e.gSense[i] * e.gSense[i] /\ Nearer(dSq, b.foodDist)
    THEN [b EXCEPT !.food = fIdx, !.foodDist = dSq]
    ELSE b

RECURSIVE senseFoodList(_, _, _, _)
senseFoodList(e, i, fIdx, b) ==
    IF fIdx = -1 THEN b
    ELSE senseFoodList(e, i, e.foodGridNext[fIdx],
           considerFood(e, i, fIdx, b,
                        getWrappedDistSq(e, e.oX[i], e.oY[i], e.fX[fIdx], e.fY[fIdx])))

considerOrganism(e, i, oIdx, b, dSq) ==
    IF oIdx # i /\ e.oActive[oIdx] = 1 /\ dSq < e.gSense[i] * e.gSense[i]
    THEN IF e.gSize[oIdx] * 100 > e.gSize[i] * e.config.predatorSizeAdvantage
         THEN IF Nearer(dSq, b.predDist)
              THEN [b EXCEPT !.pred = oIdx, !.predDist = dSq] ELSE b
         ELSE IF e.gSize[i] * 100 > e.gSize[oIdx] * e.config.predatorSizeAdvantage
              THEN IF Nearer(dSq, b.foodDist)
                   THEN [b EXCEPT !.food = -2, !.foodDist = dSq] ELSE b
              ELSE b
    ELSE b

RECURSIVE senseOrgList(_, _, _, _)
senseOrgList(e, i, oIdx, b) ==
    IF oIdx = -1 THEN b
    ELSE senseOrgList(e, i, e.gridNext[oIdx],
           considerOrganism(e, i, oIdx, b,
                            getWrappedDistSq(e, e.oX[i], e.oY[i], e.oX[oIdx], e.oY[oIdx])))

\* The cells of the 3x3 block around the cell of organism i, in scan order
\* (dy outer, dx inner), k = 0 .. 8.
blockCell(e, i, k) ==
    JsMod(e.oY[i] \div cellSize + (k \div 3) - 1 + e.gridRows, e.gridRows) * e.gridCols
    + JsMod(e.oX[i] \div cellSize + (k % 3) - 1 + e.gridCols, e.gridCols)

senseOrganisms(e, i, c, b) ==
    IF e.predationActive THEN senseOrgList(e, i, e.gridHead[c], b) ELSE b

senseCell(e, i, c, b) ==
    senseOrganisms(e, i, c, senseFoodList(e, i, e.foodGridHead[c], b))

senseBlock(e, i, b) ==
    ForRange(LAMBDA best, k : senseCell(e, i, blockCell(e, i, k), best), b, 0, 8)

sense(e, i) ==
    senseBlock(e, i, [food |-> -1, foodDist |-> -1, pred |-> -1, predDist |-> -1])

\* Steering: cx.ret is the acceleration chosen.
norm(v) == Sqrt(SumSq(v.x, v.y))

\* (v / dist) * force, nothing when dist = 0.
towards(v, dist, force) ==
    IF dist > 0
    THEN [x |-> Div(v.x * force, dist), y |-> Div(v.y * force, dist)]
    ELSE [x |-> 0, y |-> 0]

flee(cx, i, v) ==
    [cx EXCEPT !.ret = towards(v, norm(v), 12), !.e.oEnergy[i] = @ - 100]

brake(v, dist, size) == IF dist > 0 /\ dist < size * 2 THEN Div(v * 85, 100) ELSE v

seekAt(cx, i, v, dist) ==
    [cx EXCEPT
      !.ret = towards(v, dist, Max(5, Div(cx.e.gSpeed[i] * 20, 100))),
      !.e.oVX[i] = brake(@, dist, cx.e.gSize[i]),
      !.e.oVY[i] = brake(@, dist, cx.e.gSize[i])]

seek(cx, i, v) == seekAt(cx, i, v, norm(v))

wander(cx, i) ==
    [Drawn(cx, 2) EXCEPT
      !.ret = [x |-> Div((Rnd(cx, 0) - 50) * cx.e.gWander[i], 100),
               y |-> Div((Rnd(cx, 1) - 50) * cx.e.gWander[i], 100)]]

\* (fault: a food target is looked at before a predator)
steerFoodFirst(cx, i, b) ==
    IF b.food >= 0
    THEN seek(cx, i, getWrappedVector(cx.e, cx.e.oX[i], cx.e.oY[i],
                                      cx.e.fX[b.food], cx.e.fY[b.food]))
    ELSE IF b.pred # -1
         THEN flee(cx, i, getWrappedVector(cx.e, cx.e.oX[b.pred], cx.e.oY[b.pred],
                                           cx.e.oX[i], cx.e.oY[i]))
         ELSE wander(cx, i)

steer(cx, i, b) ==
    IF b.pred # -1
    THEN flee(cx, i, getWrappedVector(cx.e, cx.e.oX[b.pred], cx.e.oY[b.pred],
                                      cx.e.oX[i], cx.e.oY[i]))
    ELSE IF b.food # -1
         THEN IF b.food >= 0
              THEN seek(cx, i, getWrappedVector(cx.e, cx.e.oX[i], cx.e.oY[i],
                                                cx.e.fX[b.food], cx.e.fY[b.food]))
              ELSE wander(cx, i)
         ELSE wander(cx, i)

\* Integration: accelerate, clamp to the speed trait, move, wrap.
accelerate(e, i, acc) ==
    [e EXCEPT !.oVX[i] = @ + acc.x, !.oVY[i] = @ + acc.y]

limitSpeedAt(e, i, velMag2) ==
    [e EXCEPT !.oVX[i] = scaleDown(@, velMag2, e.gSpeed[i]),
              !.oVY[i] = scaleDown(@, velMag2, e.gSpeed[i])]

limitSpeed(e, i) == limitSpeedAt(e, i, speedOf(e, i))

advance(e, i) ==
    [e EXCEPT !.oX[i] = WrapOnce(@ + e.oVX[i], e.worldSize),
              !.oY[i] = WrapOnce(@ + e.oVY[i], e.worldSize)]

integrate(e, i, acc) == advance(limitSpeed(accelerate(e, i, acc), i), i)

\* Local interaction, food: the list of the organism's own cell.
\* (fault: no cap on the energy gained)
eatUncapped(e, i, fIdx) ==
    killFood([e EXCEPT !.oEnergy[i] = @ + e.config.foodValue], fIdx)

eat(e, i, fIdx) ==
    killFood([e EXCEPT !.oEnergy[i] =
                Min(Div(e.gRepro[i] * 12, 10), @ + e.config.foodValue)],
             fIdx)

\* Organism i ate food item fIdx in the world of c, which left e.
loggedEat(c, e, i, fIdx) ==
    Logged(withEngine(c, e),
           [ev |-> "eat", idx |-> i, food |-> fIdx,
            pre |-> c.e.oEnergy[i], post |-> e.oEnergy[i],
            threshold |-> e.gRepro[i], left |-> e.fActive[fIdx]])

RECURSIVE eatList(_, _, _)
eatList(c, i, fIdx) ==
    IF fIdx = -1 THEN c
    ELSE eatList(
           IF c.e.fActive[fIdx] = 1
              /\ getWrappedDistSq(c.e, c.e.oX[i], c.e.oY[i], c.e.fX[fIdx], c.e.fY[fIdx])
                   < (c.e.gSize[i] + 60) * (c.e.gSize[i] + 60)
           THEN loggedEat(c, eat(c.e, i, fIdx), i, fIdx)
           ELSE c,
           i, c.e.foodGridNext[fIdx])

\* Local interaction, predation: the list of the organism's own cell.
\* (fault: the victim is not killed)
devourAndSpare(e, i, other) ==
    [e EXCEPT !.oEnergy[i] =
       Min(Div(e.gRepro[i] * 15, 10),
           (@ - e.gDefense[other] * 300) + e.oEnergy[other] + e.gSize[other] * 250)]

devour(e, i, other) ==
    killOrganism(
      [e EXCEPT !.oEnergy[i] =
         Min(Div(e.gRepro[i] * 15, 10),
             (@ - e.gDefense[other] * 300) + e.oEnergy[other] + e.gSize[other] * 250)],
      other)

\* Organism i killed organism other in the world of c, which left e.
loggedDevour(c, e, i, other) ==
    Logged(withEngine(c, e),
           [ev |-> "devour", idx |-> i, other |-> other,
            pre |-> c.e.oEnergy[i], post |-> e.oEnergy[i],
            threshold |-> e.gRepro[i],
            active |-> e.oActive[other],
            top |-> IF e.oFreePtr >= 0 THEN e.oFree[e.oFreePtr] ELSE -1,
            free |-> e.oFreePtr - c.e.oFreePtr,
            alive |-> e.activeCount - c.e.activeCount])

RECURSIVE preyList(_, _, _)
preyList(c, i, other) ==
    IF other = -1 THEN c
    ELSE preyList(
           IF other # i /\ c.e.oActive[other] = 1
              /\ c.e.gSize[i] * 100 > c.e.gSize[other] * c.e.config.predatorSizeAdvantage
              /\ getWrappedDistSq(c.e, c.e.oX[i], c.e.oY[i], c.e.oX[other], c.e.oY[other])
                   < c.e.gSize[i] * c.e.gSize[i]
           THEN loggedDevour(c, devour(c.e, i, other), i, other)
           ELSE c,
           i, c.e.gridNext[other])

prey(c, i, cell) ==
    IF c.e.predationActive THEN preyList(c, i, c.e.gridHead[cell]) ELSE c

interactInCell(c, i, cell) == prey(eatList(c, i, c.e.foodGridHead[cell]), i, cell)

\* Organism i, moved, is about to interact in the world of c.
loggedInteract(c, i) == Logged(c, [ev |-> "interact", idx |-> i, e |-> c.e])

localInteraction(c, i) ==
    interactInCell(loggedInteract(c, i), i,
                   cellIndex(c.e, c.e.gridCols, c.e.gridRows, c.e.oX[i], c.e.oY[i]))

\* Reproduction.
costPerChild(energy) ==
    IF energy > 1200000 THEN 260000
    ELSE IF energy > 600000 THEN 280000 ELSE 300000

numOffspring(energy) == Max(1, Min(8, energy \div costPerChild(energy)))

\* (fault: the energy is halved whatever the number of offspring)
energyShareByTwo(energy, n) == energy \div 2
energyShare(energy, n) == energy \div (n + 1)

\* (fault: the child keeps the energy it was spawned with)
endowNothing(c, share) == c

\* if (childIdx !== -1) this.oEnergy[childIdx] = share
endow(c, share) ==
    IF c.ret # -1 THEN [c EXCEPT !.e.oEnergy[c.ret] = share] ELSE c

\* const childIdx = this.spawnOrganism(x, y, i); if (childIdx !== -1) ...
spawnChild(cx, i, share) ==
    endow(callSpawnOrganism(cx, cx.e.oX[i], cx.e.oY[i], i), share)

spawnOffspring(cx, i, share, k) ==
    Repeat(LAMBDA c : spawnChild(c, i, share), cx, k)

\* The parent keeps one share; numOffspring children are attempted.
divide(cx, i, n, share) ==
    spawnOffspring([cx EXCEPT !.e.oEnergy[i] = share], i, share, n)

loggedReproduce(cx, c, i, n) ==
    Logged(c, [ev |-> "reproduce", parent |-> i, pre |-> cx.e.oEnergy[i],
               threshold |-> cx.e.gRepro[i], offspring |-> n,
               free |-> cx.e.oFreePtr + 1,
               created |-> c.e.activeCount - cx.e.activeCount,
               born |-> [j \in {k \in OIdx : cx.e.oActive[k] = 0 /\ c.e.oActive[k] = 1}
                           |-> c.e.oEnergy[j]],
               post |-> c.e.oEnergy[i]])

reproduceWith(cx, i, n) ==
    loggedReproduce(cx, divide(cx, i, n, energyShare(cx.e.oEnergy[i], n)), i, n)

reproduce(cx, i) ==
    IF cx.e.oEnergy[i] > cx.e.gRepro[i]
    THEN reproduceWith(cx, i, numOffspring(cx.e.oEnergy[i]))
    ELSE cx

\* The organism moved from where s has it to where m has it.
loggedMove(s, m, i) ==
    Logged(m, [ev |-> "move", idx |-> i,
               rawX |-> s.e.oX[i] + m.e.oVX[i],
               rawY |-> s.e.oY[i] + m.e.oVY[i],
               x |-> m.e.oX[i], y |-> m.e.oY[i]])

move(s, i) == loggedMove(s, withEngine(s, integrate(s.e, i, s.ret)), i)

interact(c, i) == localInteraction(c, i)

\* Organism i, as it was in engine e, was clamped and drained to the velocity
\* and the energy it has in c.
loggedDrain(e, c, i) ==
    Logged(c, [ev |-> "drain", idx |-> i, energy |-> c.e.oEnergy[i],
               free |-> c.e.oFreePtr + 1, alive |-> c.e.activeCount,
               from |-> e, vx |-> c.e.oVX[i], vy |-> c.e.oVY[i]])

\* Organism i was killed by the death check, which left d.
loggedDeath(d, i) ==
    Logged(d, [ev |-> "death", idx |-> i, active |-> d.e.oActive[i],
               top |-> d.e.oFree[d.e.oFreePtr],
               free |-> d.e.oFreePtr + 1, alive |-> d.e.activeCount])

\* The phases after the drain.
\* Organism i, in the world of c, sensed b and steering left d.
loggedSteer(c, d, i, b) ==
    Logged(d, [ev |-> "steer", idx |-> i, best |-> b, acc |-> d.ret,
               energy |-> d.e.oEnergy[i], e |-> c.e])

steered(c, i, b) == loggedSteer(c, steer(c, i, b), i, b)

phases(c, i) == reproduce(interact(move(steered(c, i, sense(c.e, i)), i), i), i)

\* (fault: no continue after the kill)
behaveOn(c, i) ==
    IF c.e.oEnergy[i] <= 0
    THEN phases(loggedDeath(withEngine(c, killOrganism(c.e, i)), i), i)
    ELSE phases(c, i)

\* if (this.oEnergy[i] <= 0) { this.killOrganism(i); continue; }
behave(c, i) ==
    IF c.e.oEnergy[i] <= 0
    THEN loggedDeath(withEngine(c, killOrganism(c.e, i)), i)
    ELSE phases(c, i)

physOrganism(cx, i) ==
    IF cx.e.oActive[i] # 1 THEN cx
    ELSE behave(loggedDrain(cx.e, withEngine(cx, drain(cx.e, i)), i), i)

physicsStep(cx) == ForRange(physOrganism, cx, 0, MAX_POP - 1)

(***************************************************************************)
(* Input, the frame callback, clicks.                                      *)
(***************************************************************************)
MoveKeys == {"ArrowUp", "KeyW", "ArrowDown", "KeyS", "ArrowLeft", "KeyA", "ArrowRight", "KeyD"}
ZoomKeys == {"Equal", "NumpadAdd", "Minus", "NumpadSubtract"}

down(e, a, b) == a \in e.keys \/ b \in e.keys

\* 15 / zoom, or nothing when neither key is down.
panBy(e, a, b) == IF down(e, a, b) THEN 30000 \div e.camera.zoom ELSE 0

pan(e) ==
    [e EXCEPT
      !.camera.y = @ - panBy(e, "ArrowUp", "KeyW") + panBy(e, "ArrowDown", "KeyS"),
      !.camera.x = @ - panBy(e, "ArrowLeft", "KeyA") + panBy(e, "ArrowRight", "KeyD")]

zoomIn(e) ==
    IF down(e, "Equal", "NumpadAdd")
    THEN [e EXCEPT !.camera.zoom = Min(300, (@ * 102) \div 100)] ELSE e

zoomOut(e) ==
    IF down(e, "Minus", "NumpadSubtract")
    THEN [e EXCEPT !.camera.zoom = Max(10, (@ * 98) \div 100)] ELSE e

follow(e) ==
    IF e.followedIndex # -1
    THEN IF e.oActive[e.followedIndex] = 1
         THEN [e EXCEPT
                !.camera.x = e.oX[e.followedIndex] - Div(ViewW(e), 2),
                !.camera.y = e.oY[e.followedIndex] - Div(ViewH(e), 2)]
         ELSE [e EXCEPT !.followedIndex = -1]
    ELSE e

reclamp(e) ==
    IF e.keys \cap (MoveKeys \cup ZoomKeys) # {} \/ e.followedIndex # -1
    THEN clampCamera(e)
    ELSE e

processInput(e) == reclamp(follow(zoomOut(zoomIn(pan(e)))))

reseedOrganisms(cx, count) == Repeat(spawnFounder, cx, count)

\* if (Math.random() < 0.3) spawnFood at a biased position
sprinkleFood(g) ==
    IF Rnd(g, 0) < 30 THEN spawnFoodAt(getBiasedSpawnPos(Drawn(g, 1))) ELSE Drawn(g, 1)

\* physicsStep is about to start on the engine of g.
loggedStep(g) == Logged(g, [ev |-> "step", e |-> g.e])

RECURSIVE subSteps(_, _)
subSteps(cx, s) ==
    IF s >= cx.e.simSpeed THEN cx
    ELSE subSteps(physicsStep(loggedStep(sprinkleFood(withEngine(cx, updateGrid(cx.e))))),
                  s + 1)

\* (fault: no reseeding)
recoverNever(s) == s
\* Extinction recovery.
recover(s) ==
    IF s.e.activeCount = 0 /\ s.e.frameCount % 60 = 0
    THEN spawnRandomFood(reseedOrganisms(s, 10), 50)
    ELSE s

\* (fault: the zones drift on while paused)
simulateDrifting(c) ==
    IF c.e.paused THEN updateEnvironment(c) ELSE recover(subSteps(updateEnvironment(c), 0))
\* (fault: paused not looked at)
simulateAlways(c) == recover(subSteps(updateEnvironment(c), 0))
simulate(c) ==
    IF c.e.paused THEN c ELSE recover(subSteps(updateEnvironment(c), 0))

requestFrame(e) == [e EXCEPT !.animationId = 1, !.pending = @ + 1]

countFrame(c) == [c EXCEPT !.e.frameCount = @ + 1]

\* The trait histograms counted afresh from the organisms alive; nothing is
\* touched when none is.  A trait t with lowest bin at lo and a span of range
\* (in the units of the trait) falls in bin floor((t - lo) / range * HIST_BINS),
\* taken into 0 .. HIST_BINS - 1.
updateHistograms(e) ==
    LET bin(t, lo, range) ==
            LET b == ((t - lo) * HIST_BINS) \div range
            IN IF b < 0 THEN 0 ELSE IF b >= HIST_BINS THEN HIST_BINS - 1 ELSE b
        tally(trait, lo, range) ==
            [b \in 0 .. HIST_BINS - 1 |->
               Cardinality({i \in OIdx : e.oActive[i] = 1
                                         /\ bin(trait[i], lo, range) = b})]
    IN IF e.activeCount = 0 THEN e
       ELSE [e EXCEPT !.hSpeeds = tally(e.gSpeed, 10, 150),
                      !.hSizes = tally(e.gSize, 80, 520),
                      !.hSenses = tally(e.gSense, 400, 5600),
                      !.hStorage = tally(e.gRepro, 150000, 2350000),
                      !.hMetas = tally(e.gMeta, 50, 250),
                      !.hDefense = tally(e.gDefense, 0, 100)]

\* Every twentieth frame is a sampling tick.
sampleStats(c) ==
    IF c.e.frameCount % 20 = 0 THEN withEngine(c, updateHistograms(c.e)) ELSE c

animate(cx) ==
    sampleStats(countFrame(simulate(withEngine(cx, processInput(requestFrame(cx.e))))))

\* The host takes a requested callback off its list and runs it.
frameCallback(cx) == animate([cx EXCEPT !.e.pending = @ - 1])

unpaused(cx) == [cx EXCEPT !.e.paused = FALSE]

\* (fault: a loop is begun whether or not one is running)
startAnew(cx) == animate(unpaused(cx))

start(cx) ==
    IF cx.e.animationId = 0 THEN animate(unpaused(cx)) ELSE unpaused(cx)

\* (fault: paused left as it was)
stopIgnored(e) == e
stop(e) == [e EXCEPT !.paused = TRUE]

\* The organism a click at world position (wx, wy) selects, -1 if none.
clickDist(e, wx, wy, i) == getWrappedDist(e, wx, wy, e.oX[i], e.oY[i])

nearestClicked(e, wx, wy, cand) ==
    IF cand = {} THEN -1
    ELSE CHOOSE i \in cand :
           \A j \in cand : clickDist(e, wx, wy, i) < clickDist(e, wx, wy, j)
                           \/ (clickDist(e, wx, wy, i) = clickDist(e, wx, wy, j) /\ i <= j)

clickedOrganism(e, wx, wy) ==
    nearestClicked(e, wx, wy,
      {i \in OIdx : e.oActive[i] = 1
                    /\ clickDist(e, wx, wy, i) < e.gSize[i] + 40000 \div e.camera.zoom})

RECURSIVE clickFood(_, _, _, _)
clickFood(cx, wx, wy, count) ==
    IF count <= 0 THEN cx
    ELSE clickFood(callSpawnFood(Drawn(cx, 2), wx + (Rnd(cx, 0) - 50) * 10,
                                 wy + (Rnd(cx, 1) - 50) * 10),
                   wx, wy, count - 1)

select(cx, wx, wy, clickedOrg) ==
    IF clickedOrg # -1
    THEN [cx EXCEPT !.e.followedIndex = clickedOrg]
    ELSE clickFood([cx EXCEPT !.e.followedIndex = -1], wx, wy, 3)

clickWorld(cx, wx, wy) == select(cx, wx, wy, clickedOrganism(cx.e, wx, wy))

\* let w = (client / zoom + camera) % worldSize; if (w < 0) w += worldSize;
toWorld(client, zoom, cam, worldSize) ==
    WrapUp(JsMod((client * 2000) \div zoom + cam, worldSize), worldSize)

spawnAt(cx, clientX, clientY) ==
    clickWorld(cx,
               toWorld(clientX, cx.e.camera.zoom, cx.e.camera.x, cx.e.worldSize),
               toWorld(clientY, cx.e.camera.zoom, cx.e.camera.y, cx.e.worldSize))

(***************************************************************************)
(* Persistence documents.                                                  *)
(***************************************************************************)
\* (fault: x and y written in the wrong order)
organismTupleSwapped(e, i) ==
    << e.oY[i], e.oX[i], e.oVX[i], e.oVY[i], e.oEnergy[i],
       e.gSpeed[i], e.gSize[i], e.gSense[i], e.gRepro[i],
       e.gWander[i], e.gDefense[i], e.gMeta[i], e.gHue[i] >>

organismTuple(e, i) ==
    << e.oX[i], e.oY[i], e.oVX[i], e.oVY[i], e.oEnergy[i],
       e.gSpeed[i], e.gSize[i], e.gSense[i], e.gRepro[i],
       e.gWander[i], e.gDefense[i], e.gMeta[i], e.gHue[i] >>

foodTuple(e, i) == << e.fX[i], e.fY[i] >>

RECURSIVE exportOrganisms(_, _)
exportOrganisms(e, i) ==
    IF i >= MAX_POP THEN <<>>
    ELSE (IF e.oActive[i] = 1 THEN <<organismTuple(e, i)>> ELSE <<>>)
         \o exportOrganisms(e, i + 1)

RECURSIVE exportFood(_, _)
exportFood(e, i) ==
    IF i >= MAX_FOOD THEN <<>>
    ELSE (IF e.fActive[i] = 1 THEN <<foodTuple(e, i)>> ELSE <<>>)
         \o exportFood(e, i + 1)

\* JSON.parse(JSON.stringify(zones)): a fresh list of fresh records; every
\* number of a zone is finite and survives unchanged.
jsonCopyZones(zones) ==
    [k \in 1 .. Len(zones) |->
       [ pos    |-> [x |-> zones[k].pos.x, y |-> zones[k].pos.y],
         radius |-> zones[k].radius,
         vel    |-> [x |-> zones[k].vel.x, y |-> zones[k].vel.y] ]]

exportState(e) ==
    [ meta        |-> [version |-> "1.0"],
      config      |-> e.config,
      world       |-> [ size     |-> e.worldSize,
                        simSpeed |-> e.simSpeed,
                        flags    |-> [ predation |-> e.predationActive,
                                       zones     |-> e.activeZones,
                                       debug     |-> e.debugMode ],
                        camera   |-> e.camera ],
      environment |-> [zones |-> jsonCopyZones(e.zones)],
      entities    |-> [organisms |-> exportOrganisms(e, 0), food |-> exportFood(e, 0)] ]

\* One tuple of the document written into slot idx.
loadOrganism(e, idx, org) ==
    [e EXCEPT
      !.oFreePtr = @ - 1,
      !.oActive[idx] = 1,
      !.activeCount = @ + 1,
      !.oX[idx] = fround(org[1]), !.oY[idx] = fround(org[2]),
      !.oVX[idx] = fround(org[3]), !.oVY[idx] = fround(org[4]),
      !.oEnergy[idx] = fround(org[5]),
      !.gSpeed[idx] = fround(org[6]), !.gSize[idx] = fround(org[7]),
      !.gSense[idx] = fround(org[8]), !.gRepro[idx] = fround(org[9]),
      !.gWander[idx] = fround(org[10]), !.gDefense[idx] = fround(org[11]),
      !.gMeta[idx] = fround(org[12]), !.gHue[idx] = fround(org[13])]

\* (fault: the document's organisms read from the last to the first)
RECURSIVE loadOrganismsReversed(_, _, _)
loadOrganismsReversed(e, orgs, k) ==
    IF k > Len(orgs) \/ e.oFreePtr < 0 THEN e
    ELSE loadOrganismsReversed(
           loadOrganism(e, e.oFree[e.oFreePtr], orgs[Len(orgs) + 1 - k]), orgs, k + 1)

RECURSIVE loadOrganisms(_, _, _)
loadOrganisms(e, orgs, k) ==
    IF k > Len(orgs) \/ e.oFreePtr < 0 THEN e
    ELSE loadOrganisms(loadOrganism(e, e.oFree[e.oFreePtr], orgs[k]), orgs, k + 1)

loadOneFood(e, idx, f) ==
    [e EXCEPT
      !.fFreePtr = @ - 1,
      !.fActive[idx] = 1,
      !.fX[idx] = fround(f[1]), !.fY[idx] = fround(f[2]),
      !.foodCount = @ + 1]

RECURSIVE loadFood(_, _, _)
loadFood(e, food, k) ==
    IF k > Len(food) \/ e.fFreePtr < 0 THEN e
    ELSE loadFood(loadOneFood(e, e.fFree[e.fFreePtr], food[k]), food, k + 1)

resize(e, width, height) ==
    clampCamera([e EXCEPT !.canvas = [width |-> width, height |-> height]])

\* The statements of importState, section by section.
\* (fault: the stores are not reset before loading)
loadConfigWithoutReset(e, state) == [e EXCEPT !.config = state.config]
resetAndLoadConfig(e, state) == [resetStores(e) EXCEPT !.config = state.config]

loadWorld(e, state) ==
    [e EXCEPT
      !.worldSize = state.world.size,
      !.simSpeed = state.world.simSpeed,
      !.predationActive = state.world.flags.predation,
      !.activeZones = state.world.flags.zones,
      !.debugMode = state.world.flags.debug,
      !.camera = state.world.camera]

loadZones(e, state) == [e EXCEPT !.zones = state.environment.zones]

loadEntities(e, state) ==
    loadFood(loadOrganisms(e, state.entities.organisms, 1), state.entities.food, 1)

reclampLoaded(e) == resize(e, e.canvas.width, e.canvas.height)

Sharing(config, camera, zones) == [config |-> config, camera |-> camera, zones |-> zones]

\* importState reads the sections of the document in this order; reading a
\* field of a section the document lacks throws a TypeError and leaves the
\* engine as the statements before it made it.  The result says which of
\* config, camera and zones the engine now shares with the document.
importState(e, state) ==
    IF "world" \notin DOMAIN state
    THEN [e |-> resetAndLoadConfig(e, state),
          shared |-> Sharing(TRUE, FALSE, FALSE), err |-> "TypeError"]
    ELSE IF "environment" \notin DOMAIN state
    THEN [e |-> loadWorld(resetAndLoadConfig(e, state), state),
          shared |-> Sharing(TRUE, TRUE, FALSE), err |-> "TypeError"]
    ELSE IF "entities" \notin DOMAIN state
    THEN [e |-> loadZones(loadWorld(resetAndLoadConfig(e, state), state), state),
          shared |-> Sharing(TRUE, TRUE, TRUE), err |-> "TypeError"]
    ELSE [e |-> reclampLoaded(loadEntities(loadZones(loadWorld(resetAndLoadConfig(e, state),
                  state), state), state)),
          shared |-> Sharing(TRUE, TRUE, TRUE), err |-> "none"]

(***************************************************************************)
(* Documents a caller may hand to importState besides exported ones.       *)
(***************************************************************************)
\* One step from the right edge and heading out, with the energy to have
\* two offspring.
EdgeOrganism == << DefaultWorldSize - 1, 2000, 10, 0, 700000,
                   40, 160, 1600, 600000, 4, 5, 100, 11796480 >>

\* Far above its reproduction threshold; its energy needs 25 bits.  Its hue
\* is the float next below 15 degrees.
RichOrganism == << 30000, 30000, 0, 0, 16777217,
                   40, 160, 1600, 100000, 4, 0, 100, 983039 >>

DocWorld ==
    [ size     |-> DefaultWorldSize,
      simSpeed |-> 1,
      flags    |-> [predation |-> TRUE, zones |-> TRUE, debug |-> FALSE],
      camera   |-> [x |-> -5000, y |-> 70000, zoom |-> 100] ]

DocZones ==
    << [pos |-> [x |-> 10, y |-> 20000], radius |-> 2000, vel |-> [x |-> -20, y |-> 3]] >>

CraftedDoc ==
    [ meta        |-> [version |-> "1.0"],
      config      |-> DefaultConfig,
      world       |-> DocWorld,
      environment |-> [zones |-> DocZones],
      entities    |-> [organisms |-> <<EdgeOrganism>>,
                       food |-> << <<45000, 45000>> >>] ]

\* About to starve: the upkeep of one step exceeds its energy.
StarvingOrganism == [EdgeOrganism EXCEPT ![1] = 1000, ![5] = 50]

\* More entities than the stores hold, and a configuration that asks for
\* more.
OversizeDoc ==
    [CraftedDoc EXCEPT
      !.config = [DefaultConfig EXCEPT !.initialPop = MAX_POP + 1,
                                       !.initialFood = MAX_FOOD + 1,
                                       !.zoneDensity = 2],
      !.entities = [organisms |-> [k \in 1 .. MAX_POP + 1 |->
                                     IF k = 1 THEN StarvingOrganism
                                     ELSE IF k = 2 THEN RichOrganism
                                     ELSE [EdgeOrganism EXCEPT ![1] = 1000 * k, ![13] = k]],
                    food |-> [k \in 1 .. MAX_FOOD + 1 |-> <<1000 * k, 50000 + k>>]]]

\* Structurally malformed: a section is missing.
NoWorldDoc ==
    [ meta        |-> CraftedDoc.meta,
      config      |-> [DefaultConfig EXCEPT !.foodValue = 30000],
      environment |-> CraftedDoc.environment,
      entities    |-> CraftedDoc.entities ]

NoEntitiesDoc ==
    [ meta        |-> CraftedDoc.meta,
      config      |-> DefaultConfig,
      world       |-> DocWorld,
      environment |-> CraftedDoc.environment ]

Documents == {CraftedDoc, OversizeDoc, NoWorldDoc, NoEntitiesDoc}

\* The sections of interface GameState that importState reads.
WellFormed(d) == {"config", "world", "environment", "entities"} \subseteq DOMAIN d

(***************************************************************************)
(* State.                                                                  *)
(*   eng    the GameEngine instance                                        *)
(*   doc    the persistence document the caller holds: <<>> or <<d>>       *)
(*   shared which of config, camera, zones of eng are the very objects of   *)
(*          the document held (JavaScript assigns references)              *)
(*   saved  <<e>> when the document held was exported from the engine as   *)
(*          it was in e, <<>> otherwise                                     *)
(*   last   the operation performed last: its name, the name of the one    *)
(*          before it, the engine and the document before it, and what it  *)
(*          returned and logged                                            *)
(*   rng    the state of Math.random(): its tape and the next index        *)
(*   ops    operations performed other than frame callbacks                *)
(*   isPaused  the flag of the page (component GameCanvas) that labels the *)
(*          pause button; only the page writes it                          *)
(***************************************************************************)
VARIABLES eng, doc, shared, saved, last, rng, ops, isPaused

vars == <<eng, doc, shared, saved, last, rng, ops, isPaused>>

NotShared == Sharing(FALSE, FALSE, FALSE)

\* Writes through shared objects reach the document.
syncConfig(d, e, sh) == IF sh.config THEN [d EXCEPT !.config = e.config] ELSE d
syncCamera(d, e, sh) == IF sh.camera THEN [d EXCEPT !.world.camera = e.camera] ELSE d
syncZones(d, e, sh) == IF sh.zones THEN [d EXCEPT !.environment.zones = e.zones] ELSE d

Sync(d, e, sh) ==
    IF Len(d) = 0 THEN d
    ELSE <<syncZones(syncCamera(syncConfig(d[1], e, sh), e, sh), e, sh)>>

Did(op, cx, err) ==
    [op |-> op, prev |-> last.op, pre |-> eng, preDoc |-> doc,
     ret |-> cx.ret, err |-> err, log |-> cx.log]

\* An operation of the engine that ended with the context c.
Ran(op, c, sh) ==
    /\ eng' = c.e
    /\ shared' = sh
    /\ doc' = Sync(doc, c.e, sh)
    /\ rng' = Advanced(c)
    /\ last' = Did(op, c, "none")
    /\ UNCHANGED saved

\* A field of the engine written from outside, leaving e.
Wrote(op, e) ==
    /\ eng' = e
    /\ doc' = Sync(doc, e, shared)
    /\ last' = Did(op, Ctx(eng, rng), "none")
    /\ UNCHANGED <<shared, saved, rng>>

\* new GameEngine(...): the constructor ends with init(), which left c.
Built(c) ==
    /\ eng = c.e
    /\ rng = Advanced(c)
    /\ last = [op |-> "new", prev |-> "none", pre |-> Constructed, preDoc |-> <<>>,
               ret |-> -1, err |-> "none", log |-> c.log]

Init ==
    /\ \E tape \in Tapes : Built(init(Ctx(Constructed, [tape |-> tape, n |-> 0])))
    /\ doc = <<>>
    /\ shared = NotShared
    /\ saved = <<>>
    /\ ops = 0
    /\ isPaused = FALSE

\* The host runs the frame callback that was requested.  A frame that
\* replaces the zone list ends the sharing of the list.
Animate ==
    /\ eng.pending > 0
    /\ eng.frameCount < MaxFrames
    /\ Ran("animate", frameCallback(Ctx(eng, rng)),
           [shared EXCEPT !.zones = @ /\ (eng.paused \/ eng.activeZones)])
    /\ UNCHANGED <<ops, isPaused>>

Start ==
    /\ ops < MaxOps
    /\ eng.animationId # 0 \/ eng.frameCount < MaxFrames
    /\ Ran("start", start(Ctx(eng, rng)),
           [shared EXCEPT !.zones = @ /\ (eng.animationId # 0 \/ eng.activeZones)])
    /\ ops' = ops + 1
    /\ UNCHANGED isPaused

Stop ==
    /\ ops < MaxOps
    /\ Wrote("stop", stop(eng))
    /\ ops' = ops + 1
    /\ UNCHANGED isPaused

\* The Reset World button.
Reset ==
    /\ ops < MaxOps
    /\ Ran("init", init(Ctx(eng, rng)), [shared EXCEPT !.zones = FALSE])
    /\ ops' = ops + 1
    /\ UNCHANGED isPaused

\* A click on the canvas.
ClickPoints == { <<150, 75>>, <<0, 0>> }

SpawnAt ==
    /\ ops < MaxOps
    /\ \E p \in ClickPoints : Ran("spawnAt", spawnAt(Ctx(eng, rng), p[1], p[2]), shared)
    /\ ops' = ops + 1
    /\ UNCHANGED isPaused

\* A control of the panel writes one field of engine.config.
ConfigValues == { <<"mutationChance", 0>>, <<"baseMetabolism", 200>> }

ConfigChange ==
    /\ ops < MaxOps
    /\ \E kv \in ConfigValues : Wrote("config", [eng EXCEPT !.config[kv[1]] = kv[2]])
    /\ ops' = ops + 1
    /\ UNCHANGED isPaused

\* Dragging the canvas by 100 pixels moves the camera.
CameraDrag ==
    /\ ops < MaxOps
    /\ Wrote("drag", clampCamera([eng EXCEPT !.camera.x = @ - (100 * 2000) \div eng.camera.zoom]))
    /\ ops' = ops + 1
    /\ UNCHANGED isPaused

Export ==
    /\ ops < MaxOps
    /\ doc' = <<exportState(eng)>>
    /\ shared' = NotShared
    /\ saved' = <<eng>>
    /\ last' = Did("exportState", Ctx(eng, rng), "none")
    /\ ops' = ops + 1
    /\ UNCHANGED <<eng, rng, isPaused>>

\* The caller obtains a document from elsewhere (a file, browser storage).
LoadDocument ==
    /\ ops < MaxOps
    /\ \E d \in Documents : doc' = <<d>>
    /\ shared' = NotShared
    /\ saved' = <<>>
    /\ last' = Did("load", Ctx(eng, rng), "none")
    /\ ops' = ops + 1
    /\ UNCHANGED <<eng, rng, isPaused>>

Imported(r) ==
    /\ eng' = r.e
    /\ shared' = r.shared
    /\ doc' = Sync(doc, r.e, r.shared)
    /\ last' = Did("importState", Ctx(eng, rng), r.err)

Import ==
    /\ ops < MaxOps
    /\ Len(doc) = 1
    /\ Imported(importState(eng, doc[1]))
    /\ ops' = ops + 1
    /\ UNCHANGED <<saved, rng, isPaused>>

\* The caller edits the document it holds.
Edited(d) ==
    /\ doc' = <<d>>
    /\ eng' = IF shared.config THEN [eng EXCEPT !.config = d.config] ELSE eng

EditDocument ==
    /\ ops < MaxOps
    /\ Len(doc) = 1
    /\ Edited([doc[1] EXCEPT !.config.foodValue = 50000])
    /\ saved' = <<>>
    /\ last' = Did("edit", Ctx(eng, rng), "none")
    /\ ops' = ops + 1
    /\ UNCHANGED <<shared, rng, isPaused>>

Next ==
    \/ Animate
    \/ Start
    \/ Stop
    \/ Reset
    \/ SpawnAt
    \/ ConfigChange
    \/ CameraDrag
    \/ Export
    \/ LoadDocument
    \/ Import
    \/ EditDocument

Spec == Init /\ [][Next]_vars

(***************************************************************************)
(* Long runs: a world loaded from a document into a running engine and     *)
(* then left alone, frame after frame.  The world holds one organism and   *)
(* no food, or a small organism next to a large one.                       *)
(***************************************************************************)
MaxLongFrames == 64     \* frame callbacks explored in a long run

\* Small, slow and blind, so that the base cost is most of its upkeep.
LoneOrganism(energy) ==
    << 30000, 30000, 0, 0, energy, 40, 80, 400, 100000, 4, 0, 300, 0 >>

LoneDoc(energy, baseMetabolism) ==
    [ meta        |-> [version |-> "1.0"],
      config      |-> [DefaultConfig EXCEPT !.baseMetabolism = baseMetabolism],
      world       |-> DocWorld,
      environment |-> [zones |-> DocZones],
      entities    |-> [organisms |-> <<LoneOrganism(energy)>>, food |-> <<>>] ]

\* A small organism with energy 0.06, and 15 units to its right, within its
\* sense radius of 20 and beyond the reach of either, one of twice its size.
TimidOrganism == << 30000, 30000, 0, 0, 60, 40, 80, 400, 100000, 4, 0, 100, 0 >>
HunterOrganism == << 30300, 30000, 0, 0, 50000, 40, 160, 400, 100000, 4, 0, 100, 0 >>

PreyDoc ==
    [ meta        |-> [version |-> "1.0"],
      config      |-> DefaultConfig,
      world       |-> DocWorld,
      environment |-> [zones |-> DocZones],
      entities    |-> [organisms |-> <<TimidOrganism, HunterOrganism>>, food |-> <<>>] ]

\* The same two with energy to spare, and a food item 10 units to the left
\* of the small one: it has the food and the large one in its sense radius.
TornDoc ==
    [PreyDoc EXCEPT
      !.entities = [organisms |-> << [TimidOrganism EXCEPT ![5] = 50000], HunterOrganism >>,
                    food |-> << <<29800, 30000>> >>]]

\* Mutation rate 0 and the zones switched off: an organism with the energy
\* for one offspring.
CloneDoc ==
    [ meta        |-> [version |-> "1.0"],
      config      |-> [DefaultConfig EXCEPT !.mutationRate = 0],
      world       |-> [DocWorld EXCEPT !.flags.zones = FALSE],
      environment |-> [zones |-> DocZones],
      entities    |-> [organisms |-> <<LoneOrganism(250000)>>, food |-> <<>>] ]

\* The large organism first, and the small one 5 units to its right, within
\* the large one's size of 8; with predation on and with predation off.
AmbushDoc(predation) ==
    [ meta        |-> [version |-> "1.0"],
      config      |-> DefaultConfig,
      world       |-> [DocWorld EXCEPT !.flags.predation = predation],
      environment |-> [zones |-> DocZones],
      entities    |-> [organisms |-> << [HunterOrganism EXCEPT ![1] = 30000],
                                        [TimidOrganism EXCEPT ![1] = 30100, ![5] = 50000] >>,
                       food |-> <<>>] ]

\* An organism with 130 of energy, which is more than 1.2 times its
\* reproduction threshold of 100, at rest on two food items.
GorgedDoc ==
    [ meta        |-> [version |-> "1.0"],
      config      |-> DefaultConfig,
      world       |-> DocWorld,
      environment |-> [zones |-> DocZones],
      entities    |-> [organisms |-> <<LoneOrganism(130000)>>,
                       food |-> << <<30000, 30000>>, <<30010, 30000>> >>] ]

\* At rest 100 units from the left edge with sense radius 300, and a food
\* item 150 units from the right edge: 250 units away across the edge.  One
\* zone more than the zone density asks for, both far from the organism.
RimOrganism == << 2000, 30000, 0, 0, 50000, 40, 80, 6000, 100000, 4, 0, 100, 0 >>

RimDoc ==
    [ meta        |-> [version |-> "1.0"],
      config      |-> DefaultConfig,
      world       |-> [DocWorld EXCEPT !.flags.predation = FALSE],
      environment |-> [zones |-> DocZones \o
                         << [pos |-> [x |-> 40000, y |-> 50000], radius |-> 1000,
                             vel |-> [x |-> 0, y |-> 6]] >>],
      entities    |-> [organisms |-> <<RimOrganism>>, food |-> << <<57000, 30000>> >>] ]

\* An organism of top speed 8 and metabolism 0.5, at rest with food 200 units
\* to its right, inside its sense radius of 300.
SwiftOrganism == << 30000, 30000, 0, 0, 50000, 160, 80, 6000, 100000, 4, 0, 50, 0 >>

SwiftDoc ==
    [ meta        |-> [version |-> "1.0"],
      config      |-> DefaultConfig,
      world       |-> DocWorld,
      environment |-> [zones |-> DocZones],
      entities    |-> [organisms |-> <<SwiftOrganism>>, food |-> << <<34000, 30000>> >>] ]

\* Energy 1 and energy 0.005; the default burn rate and fifty times it.
LongDocs ==
    { LoneDoc(energy, b) : energy \in {1000, 5}, b \in {20, 1000} }
    \cup { PreyDoc, TornDoc, RimDoc, CloneDoc, GorgedDoc, SwiftDoc }
    \cup { AmbushDoc(predation) : predation \in BOOLEAN }

\* new GameEngine(...); engine.start(); engine.importState(d)
LongInit ==
    /\ \E tape \in Tapes, d \in LongDocs :
         LET c == start(init(Ctx(Constructed, [tape |-> tape, n |-> 0])))
             r == importState(c.e, d)
         IN /\ eng = r.e
            /\ rng = Advanced(c)
            /\ doc = Sync(<<d>>, r.e, r.shared)
            /\ shared = r.shared
            /\ last = [op |-> "importState", prev |-> "start", pre |-> c.e,
                       preDoc |-> <<d>>, ret |-> -1, err |-> r.err, log |-> <<>>,
                       idle |-> 0, waited |-> 0, fast |-> 0]
    /\ saved = <<>>
    /\ ops = 0
    /\ isPaused = FALSE

\* What a long run remembers besides the last operation:
\*   idle  the frames in a row, up to the last one, that ran unpaused and
\*         ended with no organism alive
\*   waited  idle as it was before the last frame
\*   fast  the frames in a row, up to the last one, that ran unpaused and
\*         began with organism 0 alone in the world and no food
Streaks(e) ==
    [idle |-> IF e.activeCount > 0 \/ e.paused THEN 0 ELSE last.idle + 1,
     waited |-> last.idle,
     fast |-> IF /\ ~eng.paused
                 /\ eng.activeCount = 1 /\ eng.oActive[0] = 1
                 /\ eng.foodCount = 0
              THEN last.fast + 1 ELSE 0]

LongRan(c, sh) ==
    /\ eng' = c.e
    /\ shared' = sh
    /\ doc' = Sync(doc, c.e, sh)
    /\ rng' = Advanced(c)
    /\ last' = Did("animate", c, "none") @@ Streaks(c.e)

LongFrame ==
    /\ eng.pending > 0
    /\ eng.frameCount < MaxLongFrames
    /\ LongRan(frameCallback(Ctx(eng, rng)),
               [shared EXCEPT !.zones = @ /\ (eng.paused \/ eng.activeZones)])
    /\ UNCHANGED <<saved, ops, isPaused>>

LongNext == LongFrame

LongRun == LongInit /\ [][LongNext]_vars

(***************************************************************************)
(* The page: component GameCanvas mounted, which creates the engine and    *)
(* starts it, and the controls of the page from then on.                   *)
(***************************************************************************)
\* (fault: the handler keeps the flag it was created with)
togglePauseStale ==
    /\ Wrote("stop", stop(eng))
    /\ isPaused' = TRUE

\* isPaused ? (engine.start(), setIsPaused(false))
\*          : (engine.stop(), setIsPaused(true))
togglePause ==
    IF isPaused
    THEN /\ Ran("start", start(Ctx(eng, rng)),
                [shared EXCEPT !.zones = @ /\ (eng.animationId # 0 \/ eng.activeZones)])
         /\ isPaused' = FALSE
    ELSE /\ Wrote("stop", stop(eng))
         /\ isPaused' = TRUE

\* useEffect: new GameEngine(...); engine.start()
Mounted(b, c) ==
    /\ eng = c.e
    /\ rng = Advanced(c)
    /\ last = [op |-> "start", prev |-> "new", pre |-> b.e, preDoc |-> <<>>,
               ret |-> c.ret, err |-> "none", log |-> c.log]

PageInit ==
    /\ \E tape \in Tapes :
         Mounted(init(Ctx(Constructed, [tape |-> tape, n |-> 0])),
                 start(init(Ctx(Constructed, [tape |-> tape, n |-> 0]))))
    /\ doc = <<>>
    /\ shared = NotShared
    /\ saved = <<>>
    /\ ops = 0
    /\ isPaused = FALSE

\* The PAUSE / RESUME button.
ClickPause ==
    /\ ops < MaxOps
    /\ togglePause
    /\ ops' = ops + 1

\* The Space key.
PressSpace ==
    /\ ops < MaxOps
    /\ togglePause
    /\ ops' = ops + 1

PageNext ==
    \/ Animate
    \/ ClickPause
    \/ PressSpace
    \/ Reset
    \/ SpawnAt
    \/ ConfigChange
    \/ CameraDrag

Page == PageInit /\ [][PageNext]_vars
(***************************************************************************)
(* The grid of a loaded world: a document of any world size is loaded and  *)
(* the dimension statements and the cell computations of updateGrid and of *)
(* the sensing scan are applied to the one organism it holds.              *)
(***************************************************************************)
\* 3000, 3100, 30000, 160000, 160001 and 200000 units.
WorldSizes == {60000, 62000, 600000, 3200000, 3200020, 4000000}

\* At the origin, in the middle, and one step from the far corner.
Corners(size) == {0, size \div 2, size - 1}

WideDoc(size, at) ==
    [ meta        |-> [version |-> "1.0"],
      config      |-> DefaultConfig,
      world       |-> [DocWorld EXCEPT !.size = size],
      environment |-> [zones |-> <<>>],
      entities    |-> [organisms |-> << [LoneOrganism(50000) EXCEPT ![1] = at, ![2] = at] >>,
                       food |-> <<>>] ]

\* new GameEngine(...); engine.importState(d)
GridInit ==
    /\ \E size \in WorldSizes : \E at \in Corners(size) :
         LET c == init(Ctx(Constructed, [tape |-> <<50, 0, 99, 0>>, n |-> 0]))
             r == importState(c.e, WideDoc(size, at))
         IN /\ eng = r.e
            /\ rng = Advanced(c)
            /\ doc = Sync(<<WideDoc(size, at)>>, r.e, r.shared)
            /\ shared = r.shared
            /\ last = [op |-> "importState", prev |-> "new", pre |-> c.e,
                       preDoc |-> <<WideDoc(size, at)>>, ret |-> -1, err |-> r.err,
                       log |-> <<>>]
    /\ saved = <<>>
    /\ ops = 0
    /\ isPaused = FALSE

\* this.gridCols = ...; this.gridRows = ...
sizeGrid(e) == [e EXCEPT !.gridCols = gridDim(e), !.gridRows = gridDim(e)]

\* The cell updateGrid files organism i under, and cell k of the block the
\* sensing scan reads for it.
Locate ==
    \E i \in OIdx, k \in 0 .. 8 :
        /\ eng.oActive[i] = 1
        /\ last' = [op |-> "updateGrid", prev |-> last.op, pre |-> eng,
                    cols |-> sizeGrid(eng).gridCols, rows |-> sizeGrid(eng).gridRows,
                    cell |-> cellIndex(sizeGrid(eng), sizeGrid(eng).gridCols,
                                       sizeGrid(eng).gridRows, eng.oX[i], eng.oY[i]),
                    near |-> blockCell(sizeGrid(eng), i, k)]
        /\ UNCHANGED <<eng, doc, shared, saved, rng, ops, isPaused>>

\* The world sizes the page offers besides the default: 6000 and 30000.
PageSizes == {120000, 600000}

\* engine.worldSize = v; engine.init()
WorldSizeChange ==
    /\ ops < MaxOps
    /\ \E v \in PageSizes :
         Ran("worldSize", init(Ctx([eng EXCEPT !.worldSize = v], rng)),
             [shared EXCEPT !.zones = FALSE])
    /\ ops' = ops + 1
    /\ UNCHANGED isPaused

\* The environment update of one unpaused frame.
Environment ==
    /\ ops < MaxOps
    /\ Ran("updateEnvironment", updateEnvironment(Ctx(eng, rng)),
           [shared EXCEPT !.zones = @ /\ eng.activeZones])
    /\ ops' = ops + 1
    /\ UNCHANGED isPaused

GridNext == Locate \/ WorldSizeChange \/ Environment

Grids == GridInit /\ [][GridNext]_vars

(***************************************************************************)
(* Properties.                                                             *)
(***************************************************************************)
Events(kind) == {k \in DOMAIN last.log : last.log[k].ev = kind}

ActiveOrganisms(e) == {i \in OIdx : e.oActive[i] = 1}
ActiveFood(e) == {i \in FIdx : e.fActive[i] = 1}

\* C1: after any sequence of operations, activeCount is the number of
\* organism slots flagged active and the organism free list holds
\* MAX_POP - activeCount slots (oFreePtr + 1); likewise foodCount, fActive
\* and the food free list with MAX_FOOD.
C1_CountsMatchFlags ==
    /\ eng.activeCount = Cardinality(ActiveOrganisms(eng))
    /\ eng.oFreePtr + 1 = MAX_POP - eng.activeCount
    /\ eng.foodCount = Cardinality(ActiveFood(eng))
    /\ eng.fFreePtr + 1 = MAX_FOOD - eng.foodCount

\* A frame in which an organism died, another was born and food was eaten.
C1_Witness ==
    /\ last.op \in {"animate", "start"}
    /\ \E i \in OIdx : last.pre.oActive[i] = 1 /\ last.pre.oEnergy[i] < 100
                       /\ eng.oEnergy[i] # last.pre.oEnergy[i]
    /\ \E k \in Events("spawnOrganism") : last.log[k].ret # -1
    /\ eng.activeCount > 0

\* C2: a spawn requested when its free list is empty returns -1 and leaves
\* the whole engine as it was, so activeCount never exceeds MAX_POP and
\* foodCount never exceeds MAX_FOOD.
C2_FullSpawnIsNoOp ==
    /\ \A k \in Events("spawnOrganism") \cup Events("spawnFood") :
          last.log[k].full => last.log[k].ret = -1 /\ last.log[k].same
    /\ eng.activeCount <= MAX_POP
    /\ eng.foodCount <= MAX_FOOD

\* One operation in which both stores refused a spawn.
C2_Witness ==
    /\ \E k \in Events("spawnOrganism") : last.log[k].full
    /\ \E k \in Events("spawnFood") : last.log[k].full
    /\ eng.activeCount = MAX_POP
    /\ eng.foodCount = MAX_FOOD

\* C3 (as stated): every trait of every active organism lies in its declared
\* range: speed [0.5, 8], size [4, 30], sense [20, 300], reproduction
\* threshold [100, 2500], wander [0.05, 2], defense [0, 1], metabolism
\* [0.5, 3], hue [0, 360), whether sampled for a founder or inherited and
\* mutated.
C3_TraitsInRange ==
    \A i \in ActiveOrganisms(eng) :
       /\ eng.gSpeed[i] \in 10 .. 160
       /\ eng.gSize[i] \in 80 .. 600
       /\ eng.gSense[i] \in 400 .. 6000
       /\ eng.gRepro[i] \in 100000 .. 2500000
       /\ eng.gWander[i] \in 1 .. 40
       /\ eng.gDefense[i] \in 0 .. 100
       /\ eng.gMeta[i] \in 50 .. 300
       /\ eng.gHue[i] \in 0 .. HueTurn - 1

\* The thirteen persisted fields of organism slot i, and the position of
\* food slot i.
OrganismFields(e, i) ==
    <<e.oX[i], e.oY[i], e.oVX[i], e.oVY[i], e.oEnergy[i], e.gSpeed[i], e.gSize[i],
      e.gSense[i], e.gRepro[i], e.gWander[i], e.gDefense[i], e.gMeta[i], e.gHue[i]>>

FoodFields(e, i) == <<e.fX[i], e.fY[i]>>

SameOrganismBag(a, b) ==
    /\ a.activeCount = b.activeCount
    /\ \A i \in ActiveOrganisms(a) :
          Cardinality({j \in ActiveOrganisms(a) : OrganismFields(a, j) = OrganismFields(a, i)})
          = Cardinality({j \in ActiveOrganisms(b) : OrganismFields(b, j) = OrganismFields(a, i)})

SameFoodBag(a, b) ==
    /\ a.foodCount = b.foodCount
    /\ \A i \in ActiveFood(a) :
          Cardinality({j \in ActiveFood(a) : FoodFields(a, j) = FoodFields(a, i)})
          = Cardinality({j \in ActiveFood(b) : FoodFields(b, j) = FoodFields(a, i)})

\* The document imported last is the one exported from the engine in saved.
ImportedExport ==
    /\ last.op = "importState"
    /\ Len(saved) = 1
    /\ last.preDoc = <<exportState(saved[1])>>

\* C4: importing the document exported from an engine, also after an
\* intervening init, gives the same multiset of 13-field organism tuples and
\* of food positions, the same zone list, the same config and the same world
\* flags as the engine had at export.
C4_RoundTrip ==
    ImportedExport =>
       /\ last.err = "none"
       /\ SameOrganismBag(saved[1], eng)
       /\ SameFoodBag(saved[1], eng)
       /\ eng.zones = saved[1].zones
       /\ eng.config = saved[1].config
       /\ eng.worldSize = saved[1].worldSize
       /\ eng.simSpeed = saved[1].simSpeed
       /\ eng.predationActive = saved[1].predationActive
       /\ eng.activeZones = saved[1].activeZones
       /\ eng.debugMode = saved[1].debugMode

\* An export restored over a world that init had repopulated differently.
C4_Witness ==
    /\ ImportedExport
    /\ last.prev = "init"
    /\ eng.activeCount >= 2
    /\ eng.foodCount >= 1
    /\ Len(eng.zones) >= 1
    /\ ~SameOrganismBag(saved[1], last.pre)
    /\ last.pre.zones # saved[1].zones

\* C5: importing the same document twice in a row, nothing in between,
\* leaves the active organism count and the food count of the first import.
C5_ImportTwice ==
    last.op = "importState" /\ last.prev = "importState" =>
       /\ eng.activeCount = last.pre.activeCount
       /\ eng.foodCount = last.pre.foodCount

\* An exported document imported a second time.
C5_Witness ==
    /\ ImportedExport
    /\ last.prev = "importState"
    /\ last.err = "none"
    /\ eng.activeCount > 0
    /\ eng.foodCount > 0

\* C6 (as stated): importing a document that lacks a section fails with a
\* validation error and leaves the engine as it was.
C6_MalformedRejected ==
    last.op = "importState" /\ ~WellFormed(last.preDoc[1]) =>
       /\ last.err = "ValidationError"
       /\ eng = last.pre

\* C7: importState empties both stores and loads the document's entities in
\* document order into slots 0, 1, ...; entities beyond MAX_POP / MAX_FOOD
\* are dropped without an error, leaving exactly that many active.
C7_ImportFillsInOrder ==
    last.op = "importState" /\ last.err = "none" =>
       /\ eng.activeCount = Min(Len(last.preDoc[1].entities.organisms), MAX_POP)
       /\ ActiveOrganisms(eng) = 0 .. eng.activeCount - 1
       /\ \A i \in ActiveOrganisms(eng) :
             OrganismFields(eng, i)
             = [f \in 1 .. 13 |-> fround(last.preDoc[1].entities.organisms[i + 1][f])]
       /\ eng.foodCount = Min(Len(last.preDoc[1].entities.food), MAX_FOOD)
       /\ ActiveFood(eng) = 0 .. eng.foodCount - 1
       /\ \A i \in ActiveFood(eng) :
             FoodFields(eng, i)
             = [f \in 1 .. 2 |-> fround(last.preDoc[1].entities.food[i + 1][f])]

\* A document with more organisms and more food than fit, imported over a
\* populated world.
C7_Witness ==
    /\ last.op = "importState"
    /\ last.err = "none"
    /\ Len(last.preDoc[1].entities.organisms) > MAX_POP
    /\ Len(last.preDoc[1].entities.food) > MAX_FOOD
    /\ last.pre.activeCount > 0
    /\ eng.activeCount = MAX_POP
    /\ eng.foodCount = MAX_FOOD

\* C8 (as stated): the document shares nothing with the engine: frames,
\* configuration changes and camera moves leave the document as it was, and
\* editing the document leaves the engine as it was.
C8_NoAliasing ==
    /\ last.op \in {"animate", "start", "stop", "init", "spawnAt", "config", "drag"}
          => doc = last.preDoc
    /\ last.op = "edit" => eng = last.pre

\* Reproductions logged by the last operation.
Reproductions == {last.log[k] : k \in Events("reproduce")}

\* C9 (amended): a reproducing organism attempts numOffspring =
\* clamp(floor(energy / costPerChild), 1, 8) offspring and keeps its
\* pre-reproduction energy divided by numOffspring + 1; the number created is
\* numOffspring capped by the free slots, so it equals numOffspring, and the
\* divisor is the number created plus one, when that many slots are free.
C9_ParentShare ==
    \A r \in Reproductions :
       /\ r.pre > r.threshold
       /\ r.offspring \in 1 .. 8
       /\ r.post = r.pre \div (r.offspring + 1)
       /\ r.created = Min(r.offspring, r.free)
       /\ r.free >= r.offspring => r.post = r.pre \div (r.created + 1)

\* A reproduction with room for all of its several offspring.
C9_Witness ==
    \E r \in Reproductions :
       /\ r.free >= r.offspring
       /\ r.offspring >= 2
       /\ r.created = r.offspring

\* C9 (as stated): with a free slot available, the parent keeps its
\* pre-reproduction energy divided by the number of offspring actually
\* created plus one, that number being between 1 and 8.
C9_ShareByCreated ==
    \A r \in Reproductions :
       r.free >= 1 =>
          /\ r.created \in 1 .. 8
          /\ r.post = r.pre \div (r.created + 1)

\* Moves logged by the last operation.
Moves == {last.log[k] : k \in Events("move")}

\* C10: the position of every active organism and of every zone lies in
\* [0, worldSize), and a coordinate advanced to worldSize + e is stored as e
\* (one below 0 as worldSize more).
C10_PositionsWrapped ==
    /\ \A i \in ActiveOrganisms(eng) :
          eng.oX[i] \in 0 .. eng.worldSize - 1 /\ eng.oY[i] \in 0 .. eng.worldSize - 1
    /\ \A k \in DOMAIN eng.zones :
          eng.zones[k].pos.x \in 0 .. eng.worldSize - 1
          /\ eng.zones[k].pos.y \in 0 .. eng.worldSize - 1
    /\ \A m \in Moves :
          /\ m.rawX >= eng.worldSize => m.x = m.rawX - eng.worldSize
          /\ m.rawY >= eng.worldSize => m.y = m.rawY - eng.worldSize
          /\ m.rawX < 0 => m.x = m.rawX + eng.worldSize
          /\ m.rawY < 0 => m.y = m.rawY + eng.worldSize

\* An organism stepped over the right edge and a zone drifted over the left
\* one in the same frame.
C10_Witness ==
    /\ last.op \in {"animate", "start"}
    /\ \E m \in Moves : m.rawX >= eng.worldSize /\ eng.oX[m.idx] = m.rawX - eng.worldSize
    /\ \E k \in DOMAIN eng.zones :
          k \in DOMAIN last.pre.zones
          /\ eng.zones[k].pos.x > last.pre.zones[k].pos.x + 1000


(***************************************************************************)
(* Starvation (long runs).                                                 *)
(***************************************************************************)
\* The organism of the document loaded, and the base cost of one behaviour
\* step for it: baseMetabolism x its metabolism trait.
Loaded == doc[1].entities.organisms[1]
BaseCost == Div(eng.config.baseMetabolism * Loaded[12], 1000)

\* Every frame since the load began with organism 0 alone and without food.
FastingSinceLoad == last.fast >= 1 /\ last.fast = eng.frameCount - 1

\* Organism 0 was deactivated in the last frame (a reseeding may have
\* taken its slot afterwards).
Starved ==
    \/ eng.oActive[0] = 0
    \/ \E k \in Events("spawnOrganism") : last.log[k].parent = -1

\* C11: a single organism loaded with energy 1 and no food in range loses
\* energy in every behaviour step it survives and is deactivated by step
\* ceil(1 / (baseMetabolism x its metabolism trait)) at the latest.
C11_StarvesInTime ==
    (Loaded[5] = 1000 /\ FastingSinceLoad) =>
        /\ Starved \/ eng.oEnergy[0] < last.pre.oEnergy[0]
        /\ last.fast >= CeilDiv(1000, BaseCost) => Starved

\* The organism survived all steps but the last the bound allows.
C11_Witness ==
    /\ Loaded[5] = 1000 /\ FastingSinceLoad
    /\ last.fast = CeilDiv(1000, BaseCost)
    /\ last.pre.oActive[0] = 1 /\ last.pre.oEnergy[0] > 0
    /\ eng.oActive[0] = 0

(***************************************************************************)
(* Running and pausing.                                                    *)
(***************************************************************************)
\* C12: start() leaves paused false and a frame requested; with a loop
\* running already it changes nothing else, without one it runs the first
\* frame; stop() sets paused and changes nothing else.
C12_StartStop ==
    /\ last.op = "start" =>
         /\ ~eng.paused
         /\ eng.animationId # 0
         /\ last.pre.animationId # 0 => eng = [last.pre EXCEPT !.paused = FALSE]
         /\ last.pre.animationId = 0 => eng.frameCount = last.pre.frameCount + 1
    /\ last.op = "stop" => eng = [last.pre EXCEPT !.paused = TRUE]

\* stop() and then start() on an engine whose loop had not been started.
C12_Witness ==
    /\ last.op = "start" /\ last.prev = "stop"
    /\ last.pre.paused /\ last.pre.animationId = 0
    /\ ~eng.paused /\ eng.animationId # 0

\* b is a but for what input processing and the frame bookkeeping write.
SameWorld(a, b) ==
    [a EXCEPT !.camera = b.camera, !.followedIndex = b.followedIndex,
              !.frameCount = b.frameCount, !.animationId = b.animationId] = b

\* A frame callback that ran with the engine paused.
PausedFrame == last.op = "animate" /\ last.pre.paused

\* C13 (amended): after stop() the frame callbacks go on, each one
\* requesting the next and counting itself, and none of them simulates:
\* the entities, the zones and the configuration stay as they are and
\* nothing is spawned or moved.
C13_PausedFramesIdle ==
    PausedFrame =>
        /\ SameWorld(last.pre, eng)
        /\ last.log = <<>>
        /\ eng.frameCount = last.pre.frameCount + 1
        /\ eng.animationId # 0

\* The callback that was pending when stop() was called ran over a
\* populated world.
C13_Witness ==
    /\ PausedFrame /\ last.prev = "stop"
    /\ last.pre.activeCount > 0 /\ last.pre.foodCount > 0
    /\ eng.paused

\* C13 (as stated): the frame callback that runs after stop() requests no
\* further one.
C13_NoFrameAfterStop == PausedFrame => eng.animationId = 0

\* C14 (the page): every activation of the pause control turns a running
\* engine into a paused one and a paused one into a running one, and the
\* flag that labels the button always equals engine.paused.  (The start()
\* of the mount is no activation.)
C14_FlagFollowsEngine ==
    /\ isPaused = eng.paused
    /\ last.op \in {"start", "stop"} /\ last.prev # "new" => eng.paused = ~last.pre.paused

\* Paused and resumed again, with a frame in between.
C14_Witness ==
    /\ last.op = "start" /\ last.pre.paused
    /\ last.pre.frameCount > 1
    /\ ~eng.paused /\ ~isPaused

(***************************************************************************)
(* Reset.                                                                  *)
(***************************************************************************)
\* The slots that the spawns of the last operation filled.
Spawned(kind) == {last.log[k].ret : k \in Events(kind)} \ {-1}

\* The entries of a free list in use.
FreeEntries(list, ptr) == {list[k] : k \in 0 .. ptr}

\* C15: after init(), the constructor's or a reset's, the active organisms
\* are min(config.initialPop, MAX_POP) founders spawned by this init, the
\* active food items min(config.initialFood, MAX_FOOD) spawned by it, the
\* zones ceil(zoneDensity x worldSize / 3000) many, and the free lists hold
\* the other slots, whatever the world was before.
C15_ResetDiscardsAll ==
    last.op \in {"new", "init"} =>
        LET n == Min(eng.config.initialPop, MAX_POP)
            f == Min(eng.config.initialFood, MAX_FOOD)
        IN /\ eng.activeCount = n /\ eng.foodCount = f
           /\ ActiveOrganisms(eng) = 0 .. n - 1
           /\ ActiveFood(eng) = 0 .. f - 1
           /\ Spawned("spawnOrganism") = 0 .. n - 1
           /\ \A k \in Events("spawnOrganism") : last.log[k].parent = -1
           /\ Spawned("spawnFood") = 0 .. f - 1
           /\ Len(eng.zones) = CeilDiv(eng.config.zoneDensity * eng.worldSize,
                                       ReferenceWorldSize)
           /\ eng.oFreePtr = MAX_POP - 1 - n
           /\ FreeEntries(eng.oFree, eng.oFreePtr) = OIdx \ (0 .. n - 1)
           /\ eng.fFreePtr = MAX_FOOD - 1 - f
           /\ FreeEntries(eng.fFree, eng.fFreePtr) = FIdx \ (0 .. f - 1)

\* A reset of a full world loaded from a document whose configuration asks
\* for more than the stores hold.
C15_Witness ==
    /\ last.op = "init"
    /\ eng.config.initialPop > MAX_POP /\ eng.config.initialFood > MAX_FOOD
    /\ last.pre.activeCount = MAX_POP /\ last.pre.oEnergy # eng.oEnergy
    /\ Len(last.pre.zones) # Len(eng.zones)
    /\ eng.activeCount = MAX_POP /\ eng.foodCount = MAX_FOOD

(***************************************************************************)
(* Extinction recovery (long runs).                                        *)
(***************************************************************************)
\* The founders that the last frame spawned.
Reseeded == {k \in Events("spawnOrganism") : last.log[k].parent = -1}

\* C16: a running engine is never without organisms at the end of 60
\* frames in a row: the frame that finds none alive when frameCount is a
\* multiple of 60 spawns 10 founders and 50 food items (as many of them as
\* the stores take), and ends with organisms alive.
C16_ExtinctionRecovery ==
    /\ last.idle < 60
    /\ (last.op = "animate" /\ ~last.pre.paused /\ last.pre.frameCount % 60 = 0)
         => eng.activeCount > 0
    /\ (last.op = "animate" /\ Reseeded # {}) =>
         /\ last.pre.frameCount % 60 = 0
         /\ Cardinality(Reseeded) = 10
         /\ eng.activeCount = Min(10, MAX_POP)
         /\ Cardinality(Events("spawnFood")) >= 50
         /\ eng.foodCount = Min(last.pre.foodCount + Cardinality(Events("spawnFood")), MAX_FOOD)

\* The organism died in the first frame after the load and the world stayed
\* empty until frame 60 reseeded it.
C16_Witness ==
    /\ last.op = "animate" /\ last.pre.frameCount = 60
    /\ last.pre.activeCount = 0 /\ last.waited = 59
    /\ Reseeded # {}
    /\ eng.activeCount > 0

(***************************************************************************)
(* Death.                                                                  *)
(***************************************************************************)
\* C17 (long runs): at the end of a frame, and so of its behaviour step,
\* every active organism has energy above 0.
C17_ActiveHaveEnergy ==
    last.op = "animate" => \A i \in ActiveOrganisms(eng) : eng.oEnergy[i] > 0

\* The event at place j of the log shows organism i acting.
Acts(j, i) ==
    \/ last.log[j].ev \in {"drain", "steer", "move", "interact", "eat", "devour", "death"}
       /\ last.log[j].idx = i
    \/ last.log[j].ev \in {"reproduce", "spawnOrganism"} /\ last.log[j].parent = i

\* C18: in a behaviour step the organism that the drain leaves with energy
\* <= 0 is deactivated there and then, its slot the top of the free list,
\* and does nothing more in that step; every other one goes on to steer
\* and move.
C18_DeadSkipPhases ==
    last.op \in {"animate", "start"} =>
        \A k \in Events("drain") :
            /\ k < Len(last.log)
            /\ IF last.log[k].energy <= 0
               THEN /\ last.log[k + 1].ev = "death"
                    /\ last.log[k + 1].idx = last.log[k].idx
                    /\ last.log[k + 1].active = 0
                    /\ last.log[k + 1].top = last.log[k].idx
                    /\ last.log[k + 1].free = last.log[k].free + 1
                    /\ last.log[k + 1].alive = last.log[k].alive - 1
                    /\ \A j \in k + 2 .. Len(last.log) : ~Acts(j, last.log[k].idx)
               ELSE /\ k + 1 < Len(last.log)
                    /\ last.log[k + 1].ev = "steer"
                    /\ last.log[k + 1].idx = last.log[k].idx
                    /\ last.log[k + 2].ev = "move"
                    /\ last.log[k + 2].idx = last.log[k].idx

\* An organism starved, and a child born later in the same step took its
\* slot.
C18_Witness ==
    /\ last.op = "animate"
    /\ \E k \in Events("death") : \E j \in Events("spawnOrganism") :
         /\ j > k
         /\ last.log[j].ret = last.log[k].idx
         /\ last.log[j].parent >= 0

(***************************************************************************)
(* Free lists.                                                             *)
(***************************************************************************)
\* C19: the entries 0 .. oFreePtr of oFree are pairwise distinct and are
\* the inactive organism slots, likewise fFree and the food slots, and no
\* spawn returns a slot that was active.
C19_FreeListsExact ==
    /\ FreeEntries(eng.oFree, eng.oFreePtr) = OIdx \ ActiveOrganisms(eng)
    /\ Cardinality(FreeEntries(eng.oFree, eng.oFreePtr)) = eng.oFreePtr + 1
    /\ FreeEntries(eng.fFree, eng.fFreePtr) = FIdx \ ActiveFood(eng)
    /\ Cardinality(FreeEntries(eng.fFree, eng.fFreePtr)) = eng.fFreePtr + 1
    /\ \A k \in Events("spawnOrganism") \cup Events("spawnFood") : ~last.log[k].taken

\* With the store full, an organism starved, its slot became the only free
\* one, and a child born later in the step took it: the list is empty
\* again and the slot active.
C19_Witness ==
    /\ last.op = "animate"
    /\ last.pre.oFreePtr = -1 /\ eng.oFreePtr = -1
    /\ \E k \in Events("death") : \E j \in Events("spawnOrganism") :
         /\ j > k
         /\ last.log[k].free = 1 /\ last.log[k].top = last.log[k].idx
         /\ last.log[j].ret = last.log[k].idx
         /\ eng.oActive[last.log[j].ret] = 1

(***************************************************************************)
(* Spatial grid.                                                           *)
(***************************************************************************)
\* The indices linked from head on through next, at most fuel of them.
RECURSIVE Chain(_, _, _)
Chain(next, head, fuel) ==
    IF head = -1 \/ fuel = 0 THEN <<>>
    ELSE <<head>> \o Chain(next, next[head], fuel - 1)

OrganismsIn(g, c) == Chain(g.gridNext, g.gridHead[c], MAX_POP + 1)
FoodIn(g, c) == Chain(g.foodGridNext, g.foodGridHead[c], MAX_FOOD + 1)

Cells(g) == 0 .. g.gridCols * g.gridRows - 1

\* How often index i occurs in the sequence q.
Occurrences(q, i) == Cardinality({n \in DOMAIN q : q[n] = i})

\* The food item that the sub-step beginning at place k of the log spawned
\* after its grid rebuild, if any.
Sprinkled(k) ==
    IF k > 1 /\ last.log[k - 1].ev = "spawnFood" THEN {last.log[k - 1].ret} ELSE {}

\* The grid of g links every active organism once in the cell of its
\* position and links nothing else.
OrganismGridExact(g) ==
    \A c \in Cells(g) : \A i \in OIdx :
        Occurrences(OrganismsIn(g, c), i) =
            IF g.oActive[i] = 1 /\ cellIndex(g, g.gridCols, g.gridRows, g.oX[i], g.oY[i]) = c
            THEN 1 ELSE 0

\* The same for food, but for the items in late, which need not be linked.
FoodGridExact(g, late) ==
    \A c \in Cells(g) : \A i \in FIdx :
        LET there == g.fActive[i] = 1
                     /\ cellIndex(g, g.gridCols, g.gridRows, g.fX[i], g.fY[i]) = c
        IN IF i \in late
           THEN Occurrences(FoodIn(g, c), i) <= (IF there THEN 1 ELSE 0)
           ELSE Occurrences(FoodIn(g, c), i) = (IF there THEN 1 ELSE 0)

C21_CellsAllocated ==
    last.op = "updateGrid" =>
        /\ last.cols <= MAX_GRID_DIM /\ last.rows <= MAX_GRID_DIM
        /\ last.cell \in 0 .. MAX_GRID_DIM * MAX_GRID_DIM - 1
        /\ last.near \in 0 .. MAX_GRID_DIM * MAX_GRID_DIM - 1

(***************************************************************************)
(* Sensing and steering.                                                   *)
(***************************************************************************)
\* The squared wrapped distance from organism i to food item f in g.
FoodDistSq(g, i, f) == getWrappedDistSq(g, g.oX[i], g.oY[i], g.fX[f], g.fY[f])

\* The active food within the sense radius of organism i in g.
FoodInRange(g, i) ==
    {f \in FIdx : g.fActive[f] = 1 /\ FoodDistSq(g, i, f) < g.gSense[i] * g.gSense[i]}

\* C22: an organism whose sense radius is at most the cell size selects,
\* whenever active food lies within its sense radius, a nearest such item
\* by wrapped distance, also across the edge of a world whose size is not a
\* multiple of the cell size.
C22_NearestFoodSensed ==
    \A k \in Events("steer") :
        LET g == last.log[k].e
            i == last.log[k].idx
            b == last.log[k].best
        IN (g.gSense[i] <= cellSize /\ FoodInRange(g, i) # {}) =>
               /\ b.food \in FoodInRange(g, i)
               /\ \A f \in FoodInRange(g, i) : FoodDistSq(g, i, b.food) <= FoodDistSq(g, i, f)


\* The squared wrapped distance between organisms i and j in g.
OrganismDistSq(g, i, j) == getWrappedDistSq(g, g.oX[i], g.oY[i], g.oX[j], g.oY[j])

\* Organism j is linked in one of the nine cells scanned for organism i.
Scanned(g, i, j) ==
    \E k \in 0 .. 8 : Occurrences(OrganismsIn(g, blockCell(g, i, k)), j) > 0

\* Organism a holds the size advantage over organism b.
Outsizes(g, a, b) == g.gSize[a] * 100 > g.gSize[b] * g.config.predatorSizeAdvantage

\* The other active organisms sensed by organism i within its sense radius.
Sensed(g, i) ==
    {j \in OIdx : /\ j # i /\ g.oActive[j] = 1 /\ Scanned(g, i, j)
                  /\ OrganismDistSq(g, i, j) < g.gSense[i] * g.gSense[i]}

Predators(g, i) == {j \in Sensed(g, i) : Outsizes(g, j, i)}
Prey(g, i) == {j \in Sensed(g, i) : ~Outsizes(g, j, i) /\ Outsizes(g, i, j)}

\* The acceleration acc has length force and the direction of v, up to the
\* rounding of its two components.
Along(acc, v, force) ==
    /\ acc.x * v.x >= 0 /\ acc.y * v.y >= 0
    /\ Abs(acc.x * v.y - acc.y * v.x) <= Abs(v.x) + Abs(v.y)
    /\ SumSq(acc.x, acc.y) <= force * force
    /\ SumSq(acc.x, acc.y) >= (force - 2) * (force - 2)

\* From organism j to organism i, the short way round.
AwayFrom(g, i, j) == getWrappedVector(g, g.oX[j], g.oY[j], g.oX[i], g.oY[i])

\* C23: with predation on, an organism that senses a larger organism
\* within its sense radius flees the nearest one: it pays the flee tax of
\* 0.1 and, unless the two are at the same point, accelerates by 0.6 straight
\* away from it, whatever food or prey it senses as well.
C23_FleeFirst ==
    \A k \in Events("steer") :
        LET g == last.log[k].e
            i == last.log[k].idx
            b == last.log[k].best
        IN (g.predationActive /\ Predators(g, i) # {}) =>
               /\ b.pred \in Predators(g, i)
               /\ \A j \in Predators(g, i) :
                      OrganismDistSq(g, i, b.pred) <= OrganismDistSq(g, i, j)
               /\ last.log[k].energy = g.oEnergy[i] - 100
               /\ OrganismDistSq(g, i, b.pred) > 0 =>
                      Along(last.log[k].acc, AwayFrom(g, i, b.pred), 12)

\* An organism fled a predator while it had a food item in its sights.
C23_Witness ==
    \E k \in Events("steer") :
        /\ last.log[k].e.predationActive
        /\ Predators(last.log[k].e, last.log[k].idx) # {}
        /\ last.log[k].best.food >= 0
        /\ OrganismDistSq(last.log[k].e, last.log[k].idx, last.log[k].best.pred) > 0
        /\ last.log[k].acc # [x |-> 0, y |-> 0]


\* To organism j from organism i, the short way round.
Towards(g, i, j) == getWrappedVector(g, g.oX[i], g.oY[i], g.oX[j], g.oY[j])

\* Math.max(0.25, gSpeed * 0.2)
SteerForce(g, i) == Max(5, Div(g.gSpeed[i] * 20, 100))

\* Prey j is the nearest thing organism i senses: no sensed prey and no
\* food in range is as near or nearer.
NearestTarget(g, i, j) ==
    /\ j \in Prey(g, i)
    /\ \A p \in Prey(g, i) : OrganismDistSq(g, i, j) <= OrganismDistSq(g, i, p)
    /\ \A f \in FoodInRange(g, i) : OrganismDistSq(g, i, j) < FoodDistSq(g, i, f)

\* C24: with predation on, an organism that senses no predator and whose
\* nearest sensed target is a smaller organism pursues it: it accelerates
\* toward the prey with the force its speed trait gives, as for food.
C24_PreyPursued ==
    \A k \in Events("steer") :
        LET g == last.log[k].e
            i == last.log[k].idx
        IN \A j \in OIdx :
               (/\ g.predationActive /\ Predators(g, i) = {}
                /\ NearestTarget(g, i, j) /\ OrganismDistSq(g, i, j) > 0) =>
                   Along(last.log[k].acc, Towards(g, i, j), SteerForce(g, i))


(***************************************************************************)
(* Mutation.                                                               *)
(***************************************************************************)
\* The spawns of the last operation that had a parent and found a slot.
Births ==
    {k \in Events("spawnOrganism") : last.log[k].parent # -1 /\ last.log[k].ret # -1}

\* C25: an offspring's traits differ from its parent's only through a
\* mutation that fired, and by an amount proportional to the mutation
\* rate; so with mutation chance 0 or mutation rate 0 each of the eight
\* traits of every offspring equals its parent's.
C25_NoMutationNoChange ==
    \A k \in Births :
        (last.log[k].config.mutationChance = 0 \/ last.log[k].config.mutationRate = 0) =>
            last.log[k].traits = last.log[k].from


(***************************************************************************)
(* Zones.                                                                  *)
(***************************************************************************)
\* ceil(density * worldArea / referenceArea), the areas in whole units.
AreaTarget(e) ==
    CeilDiv(e.config.zoneDensity * (e.worldSize \div 20) * (e.worldSize \div 20),
            (ReferenceWorldSize \div 20) * (ReferenceWorldSize \div 20))

\* C26: the number of zones init creates, and the number up to which the
\* environment update appends one zone per tick, is
\* ceil(zoneDensity * worldSize^2 / 3000^2).
C26_ZoneTargetByArea ==
    /\ last.op = "worldSize" => Len(eng.zones) = AreaTarget(eng)
    /\ (last.op = "updateEnvironment" /\ eng.activeZones /\ eng.worldSize <= 600000) =>
           Len(eng.zones) = Len(last.pre.zones)
                            + (IF Len(last.pre.zones) < AreaTarget(eng) THEN 1 ELSE 0)


\* Zone k of the list before the last frame is zone k of the list after it,
\* one drift step further.
ZoneKept(k) ==
    /\ k <= Len(eng.zones)
    /\ eng.zones[k].radius = last.pre.zones[k].radius
    /\ eng.zones[k].pos.x = WrapOnce(last.pre.zones[k].pos.x + last.pre.zones[k].vel.x,
                                     eng.worldSize)
    /\ eng.zones[k].pos.y = WrapOnce(last.pre.zones[k].pos.y + last.pre.zones[k].vel.y,
                                     eng.worldSize)

Ticked == last.op = "animate" /\ ~last.pre.paused

\* C27 as stated: after any tick the zone list holds every zone it held
\* before the tick, whatever the zones flag.
C27_NoZoneRemoved == Ticked => \A k \in DOMAIN last.pre.zones : ZoneKept(k)

\* C27: while the zones flag is on, a tick removes no zone, also when the
\* list is longer than the target; with the flag off it empties the list.
C27_ZonesKeptWhileOn ==
    Ticked => IF last.pre.activeZones
              THEN \A k \in DOMAIN last.pre.zones : ZoneKept(k)
              ELSE eng.zones = <<>>

\* A tick began with more zones than the target and kept them all.
C27_Witness ==
    /\ Ticked /\ last.pre.activeZones
    /\ Len(last.pre.zones) > targetZoneCount(last.pre)
    /\ Len(eng.zones) = Len(last.pre.zones)


(***************************************************************************)
(* Feeding and predation.                                                  *)
(***************************************************************************)
\* Meals logged by the last operation.
Meals == {last.log[k] : k \in Events("eat")}

\* C28: right after an organism has eaten a food item its energy is at
\* most 1.2 times its reproduction threshold, however many items it eats in
\* the step; the item is gone.
C28_FeedingCapped ==
    \A m \in Meals : m.post * 10 <= m.threshold * 12 /\ m.left = 0

\* An organism ate two items in one step and the cap cut the gain of one.
C28_Witness ==
    \E k \in Events("eat") :
        /\ k < Len(last.log)
        /\ last.log[k + 1].ev = "eat"
        /\ last.log[k + 1].idx = last.log[k].idx
        /\ last.log[k + 1].food # last.log[k].food
        /\ last.log[k + 1].post * 10 = last.log[k + 1].threshold * 12
        /\ last.log[k + 1].post < last.log[k + 1].pre + eng.config.foodValue

\* C29: eating a food item never lowers the eater's energy.
C29_FeedingGains == \A m \in Meals : m.post >= m.pre


\* The cell organism i interacts in: that of its position in g.
OwnCell(g, i) == cellIndex(g, g.gridCols, g.gridRows, g.oX[i], g.oY[i])

\* The organisms that organism i is to destroy when it interacts in g: with
\* predation on, the active ones linked in its cell over which it holds the
\* size advantage and which are nearer than its size.
Victims(g, i) ==
    IF ~g.predationActive THEN {}
    ELSE {j \in OIdx : /\ j # i /\ g.oActive[j] = 1
                       /\ Occurrences(OrganismsIn(g, OwnCell(g, i)), j) > 0
                       /\ Outsizes(g, i, j)
                       /\ OrganismDistSq(g, i, j) < g.gSize[i] * g.gSize[i]}

\* The place in the log where the events that follow place k and belong to
\* kind end: the next event of that kind, or the end of the log.
Until(k, kind) ==
    IF \E n \in Events(kind) : n > k
    THEN CHOOSE n \in Events(kind) : n > k /\ \A m \in Events(kind) : m > k => n <= m
    ELSE Len(last.log) + 1

\* The interaction that the event at place d belongs to.
Interaction(d) ==
    CHOOSE k \in Events("interact") : k < d /\ \A m \in Events("interact") : m < d => m <= k

RECURSIVE Total(_)
Total(f) ==
    IF DOMAIN f = {} THEN 0
    ELSE LET j == CHOOSE k \in DOMAIN f : TRUE
         IN f[j] + Total([k \in DOMAIN f \ {j} |-> f[k]])

\* The energy a reproduction lost: what the parent had before, less what
\* it and its offspring have after.
Lost(r) == r.pre - (r.post + Total(r.born))

\* C31 as stated: a reproduction loses no energy (but the rounding of the
\* shares), whether or not every intended offspring found a slot.
C31_EnergyConserved == \A r \in Reproductions : Lost(r) \in 0 .. r.offspring

\* C31: every offspring spawned gets the share the parent keeps, which is
\* the parent's energy divided by the number intended plus one; nothing is
\* lost (but the rounding of the shares) when all intended offspring were
\* spawned, and the shares of the dropped ones are lost otherwise.
C31_SharesGiven ==
    \A r \in Reproductions :
        /\ Cardinality(DOMAIN r.born) = r.created
        /\ \A j \in DOMAIN r.born : r.born[j] = r.post
        /\ r.created = r.offspring => Lost(r) \in 0 .. r.offspring
        /\ r.created < r.offspring =>
               Lost(r) - (r.offspring - r.created) * r.post \in 0 .. r.offspring

\* A reproduction that spawned some of its offspring and dropped others.
C31_Witness ==
    \E r \in Reproductions :
        /\ r.created \in 1 .. r.offspring - 1
        /\ Total(r.born) = r.created * r.post
        /\ Lost(r) > r.offspring


\* The events of the behaviour step in which the event at place k lies that
\* come after it.
RestOfStep(k) == k + 1 .. Until(k, "step") - 1

\* C32: in a behaviour step the organisms take their turns in ascending
\* index order, each at most once, and an organism spawned in the step by a
\* parent takes no turn in it, whatever slot it got.
C32_NewbornsWait ==
    /\ \A k \in Events("drain") : \A n \in RestOfStep(k) :
          last.log[n].ev = "drain" => last.log[n].idx > last.log[k].idx
    /\ \A s \in Events("spawnOrganism") :
          (last.log[s].parent # -1 /\ last.log[s].ret # -1) =>
              \A n \in RestOfStep(s) : ~Acts(n, last.log[s].ret)


\* C33: after every sampling tick the bins of each trait histogram add up to
\* the number of organisms alive, also when the last one has just died.
Histograms(e) ==
    { e.hSpeeds, e.hSizes, e.hSenses, e.hStorage, e.hMetas, e.hDefense }

SamplingTick == last.op = "animate" /\ eng.frameCount % 20 = 0

C33_HistogramsCountPopulation ==
    SamplingTick => \A h \in Histograms(eng) : Total(h) = eng.activeCount


\* C34: a frame callback that runs while the engine is paused leaves the
\* simulation as it was: every organism and food slot, the counts, the
\* free lists and the zones are the same, and no spawn, death, drain or move
\* happened in it; the frame is requested and counted all the same.
Simulation(e) ==
    << e.oX, e.oY, e.oVX, e.oVY, e.oEnergy, e.gSpeed, e.gSize, e.gSense,
       e.gRepro, e.gWander, e.gDefense, e.gMeta, e.gHue,
       e.oActive, e.oFree, e.oFreePtr, e.activeCount,
       e.fX, e.fY, e.fActive, e.fFree, e.fFreePtr, e.foodCount, e.zones >>

C34_PausedSimulationKept ==
    PausedFrame =>
        /\ Simulation(eng) = Simulation(last.pre)
        /\ \A kind \in {"spawnOrganism", "spawnFood", "death", "drain", "move"} :
              Events(kind) = {}
        /\ eng.paused

\* A paused frame over a world with organisms, food and zones, one of the
\* organisms being followed by the camera.
C34_Witness ==
    /\ PausedFrame
    /\ eng.activeCount > 0 /\ eng.foodCount > 0 /\ Len(eng.zones) > 0
    /\ eng.followedIndex # -1 /\ eng.oActive[eng.followedIndex] = 1
    /\ eng.frameCount = last.pre.frameCount + 1


\* C35: however start(), stop() and the frame callbacks interleave, the
\* host holds at most one frame callback of the engine at any time, and a
\* start() on an engine whose loop is running requests none.
C35_OneLoop ==
    /\ eng.pending <= 1
    /\ eng.animationId # 0 => eng.pending = 1
    /\ (last.op = "start" /\ last.pre.animationId # 0) => eng.pending = last.pre.pending

\* start() after stop(), with frames run before.
C35_Witness ==
    /\ last.op = "start" /\ last.prev = "stop"
    /\ last.pre.paused /\ last.pre.frameCount > 0 /\ last.pre.pending = 1
    /\ ~eng.paused /\ eng.pending = 1


\* C36: followedIndex never outlives the organism it was set for: once
\* init() or a successful importState() has replaced the population nobody
\* is followed, and after a frame callback the followed slot, if any, holds
\* a live organism.
C36_FollowedNeverStale ==
    /\ (last.op = "init" \/ (last.op = "importState" /\ last.err = "none"))
          => eng.followedIndex = -1
    /\ (last.op = "animate" /\ eng.followedIndex # -1)
          => eng.oActive[eng.followedIndex] = 1


\* C37: every food item that init(), the biased random spawns of a frame or
\* a click on the canvas put into the world lies in [0, worldSize) on both
\* axes.
InWorld(e, x, y) == x >= 0 /\ x < e.worldSize /\ y >= 0 /\ y < e.worldSize

C37_FoodInsideWorld ==
    last.op \in {"new", "init", "animate", "spawnAt"} =>
        \A i \in Spawned("spawnFood") :
            eng.fActive[i] = 1 => InWorld(eng, eng.fX[i], eng.fY[i])


\* C38: the speed term of the energy drain of a behaviour step is that of
\* the capped speed: what a step charges an organism for its speed never
\* exceeds the cubic cost of the speed 4 x metabolism, and the velocity the
\* drain leaves is within that speed.
SpeedLimit(e, i) == Div(e.gMeta[i] * 80, 100)

\* The energy the drain took, less the zone damage and the costs of
\* metabolism, size, sense and defense.
SpeedCharged(d) ==
    (d.from.oEnergy[d.idx] - d.energy)
    - (IF d.from.activeZones THEN zoneDamage(d.from, d.idx, 1) ELSE 0)
    - upkeep(d.from, d.idx, 0)

Drains == { last.log[k] : k \in Events("drain") }

C38_SpeedCostCapped ==
    \A d \in Drains :
        LET top == SpeedLimit(d.from, d.idx)
        IN /\ SpeedCharged(d) <= Div(top * top * top, 400)
           /\ SumSq(d.vx, d.vy) <= top * top

=============================================================================
